---- MODULE Spec2Model ----
(***************************************************************************)
(* Markdown-to-Notion block pipeline of Synthra:                           *)
(*   backend/services/clean_content_parser.py  (CleanContentParser)        *)
(*   backend/services/notion_service.py        (NotionService)             *)
(*                                                                         *)
(* A Python str is a sequence of one-character strings.  Python indices    *)
(* are 0-based and slices are half-open; the helpers below keep that       *)
(* convention so that every index in the model is the index of the code.   *)
(***************************************************************************)
EXTENDS Integers, Sequences, FiniteSets, TLC

VARIABLES
  model,      \* CleanContentParser.model is set: the parser was built with an API key
  call,       \* the call of NotionService.save_content:
              \*   [pc, content, title, url, ai, parsed, blocks, children]
  fmt,        \* the call of _parse_inline_formatting: [pc, text, parts]
  spl,        \* the call of _split_long_content:
              \*   [pc, content, max_length, max_blocks, blocks]
  lex,        \* the call of _markdown_to_notion_blocks: [pc, markdown, blocks],
              \*   or of _create_code_block: [pc, code, language, block]
  brk,        \* the call of _find_best_break_point: [pc, text, pos], or of
              \* _smart_split_content: [pc, content, remaining, chunks, done]
  par,        \* two calls of parse_and_format_for_notion on one parser:
              \*   [page_images, pc, images, hints]
  req         \* one request of save_to_notion, with the page on the side of Notion:
              \*   [pc, notion_token, database_id, url, content_len, created_page_id,
              \*    page, success, error]

vars == <<model, call, fmt, spl, lex, brk, par, req>>

(***************************************************************************)
(* Bounds of the model (not program constants).                            *)
(***************************************************************************)
\* most tokens of a text given to the inline formatter
MaxInlineTokens == 5
\* most tokens of a short content given to the splitter
MaxSplitTokens == 4
\* most paragraphs of a long content given to the splitter
MaxSplitParagraphs == 3
\* most units (paragraphs, bullets, headings) of a markdown answer of the model
MaxDocUnits == 101
\* length of a text that is longer than a Notion text field
LongTextLen == 2001

(***************************************************************************)
(* Python str primitives                                                   *)
(***************************************************************************)
Min2(a, b) == IF a <= b THEN a ELSE b
Max2(a, b) == IF a >= b THEN a ELSE b
MinOf(S) == CHOOSE x \in S : \A y \in S : x <= y

\* c * n
Rep(c, n) == <<>> \o [i \in 1..n |-> c]
\* t[i]
At(t, i) == t[i + 1]
\* t[a:b]
Slice(t, a, b) == SubSeq(t, a + 1, Min2(b, Len(t)))
\* t[a:]
From(t, a) == SubSeq(t, a + 1, Len(t))
\* t[i:i+len(p)] == p
MatchAt(t, p, i) ==
  /\ i >= 0
  /\ i + Len(p) <= Len(t)
  /\ \A k \in 1..Len(p) : t[i + k] = p[k]
\* t.startswith(p), t.endswith(p)
StartsWith(t, p) == MatchAt(t, p, 0)
EndsWith(t, p) == MatchAt(t, p, Len(t) - Len(p))
\* t.find(p, from), t.rfind(p), p in t
Occurrences(t, p, from) == {i \in from..(Len(t) - Len(p)) : MatchAt(t, p, i)}
Find(t, p, from) ==
  LET hit(i) == MatchAt(t, p, i)
  IN IF \E cand \in (from)..(Len(t) - Len(p)) : hit(cand)
     THEN CHOOSE cand \in (from)..(Len(t) - Len(p)) : hit(cand) /\ \A prev \in (from)..(cand - 1) : ~hit(prev)
     ELSE -1
RFind(t, p) ==
  LET last == Len(t) - Len(p)
      hit(d) == MatchAt(t, p, last - d)
      back == IF \E cand \in (0)..(last) : hit(cand)
              THEN CHOOSE cand \in (0)..(last) : hit(cand) /\ \A prev \in (0)..(cand - 1) : ~hit(prev)
              ELSE -1
  IN IF back = -1 THEN -1 ELSE last - back
Contains(t, p) == \E i \in 0..(Len(t) - Len(p)) : MatchAt(t, p, i)

\* Characters that a TLA+ string cannot hold are named by their code point.
Backquote == "U+0060"
Bullet == "U+2022"
WarningSign == "U+26A0"
VariationSelector16 == "U+FE0F"
Camera == "U+1F4F7"

\* str.isspace() on the characters of the model's alphabet
Whitespace == {" ", "\n", "\t"}
\* t.lstrip(chars), t.rstrip(chars), t.lstrip(), t.rstrip(), t.strip()
LStripSet(t, chars) ==
  LET hit(k) == t[k] \notin chars
      i == IF \E cand \in (1)..(Len(t)) : hit(cand)
           THEN CHOOSE cand \in (1)..(Len(t)) : hit(cand) /\ \A prev \in (1)..(cand - 1) : ~hit(prev)
           ELSE -1
  IN IF i = -1 THEN <<>> ELSE SubSeq(t, i, Len(t))
RStripSet(t, chars) ==
  LET n == Len(t)
      hit(k) == t[n + 1 - k] \notin chars
      i == IF \E cand \in (1)..(n) : hit(cand)
           THEN CHOOSE cand \in (1)..(n) : hit(cand) /\ \A prev \in (1)..(cand - 1) : ~hit(prev)
           ELSE -1
  IN IF i = -1 THEN <<>> ELSE SubSeq(t, 1, n + 1 - i)
LStrip(t) == LStripSet(t, Whitespace)
RStrip(t) == RStripSet(t, Whitespace)
Strip(t) == LStrip(RStrip(t))

UpperChars == <<"A","B","C","D","E","F","G","H","I","J","K","L","M",
                "N","O","P","Q","R","S","T","U","V","W","X","Y","Z">>
LowerChars == <<"a","b","c","d","e","f","g","h","i","j","k","l","m",
                "n","o","p","q","r","s","t","u","v","w","x","y","z">>
Digits == {"0","1","2","3","4","5","6","7","8","9"}
IsUpper(c) == \E i \in 1..26 : UpperChars[i] = c
IsAlpha(c) == \E i \in 1..26 : UpperChars[i] = c \/ LowerChars[i] = c
LowerChar(c) ==
  IF IsUpper(c) THEN LowerChars[CHOOSE i \in 1..26 : UpperChars[i] = c] ELSE c
\* t.lower()
Lower(t) == <<>> \o [i \in 1..Len(t) |-> LowerChar(t[i])]

(***************************************************************************)
(* A loop of the code is a pair XStep, XLoop: XStep is one iteration on    *)
(* the loop's variables, a record with a field done that the iteration     *)
(* sets when the loop exits; XLoop runs the iterations in order, and fuel  *)
(* is a number of iterations the loop cannot exceed on its input (the      *)
(* recursion only halves the fuel).                                        *)
(***************************************************************************)

\* t.split(sep)
SplitStep(t, sep, st) ==
  LET j == Find(t, sep, st.pos)
  IN IF j = -1
     THEN [st EXCEPT !.acc = Append(st.acc, From(t, st.pos)), !.done = TRUE]
     ELSE [st EXCEPT !.acc = Append(st.acc, Slice(t, st.pos, j)),
                     !.pos = j + Len(sep)]
RECURSIVE SplitLoop(_, _, _, _)
SplitLoop(t, sep, st, fuel) ==
  IF st.done THEN st
  ELSE IF fuel <= 1 THEN SplitStep(t, sep, st)
  ELSE LET mid == SplitLoop(t, sep, st, fuel \div 2)
       IN IF mid.done THEN mid ELSE SplitLoop(t, sep, mid, fuel - (fuel \div 2))
Split(t, sep) ==
  SplitLoop(t, sep,
          [pos |-> 0, acc |-> <<>>, done |-> FALSE], Len(t) + 1).acc

\* sep.join(parts)
JoinStep(parts, sep, st) ==
  IF st.k > Len(parts) THEN [st EXCEPT !.done = TRUE]
  ELSE [st EXCEPT !.k = st.k + 1,
                  !.acc = IF st.k = 1 THEN parts[1] ELSE st.acc \o sep \o parts[st.k]]
RECURSIVE JoinLoop(_, _, _, _)
JoinLoop(parts, sep, st, fuel) ==
  IF st.done THEN st
  ELSE IF fuel <= 1 THEN JoinStep(parts, sep, st)
  ELSE LET mid == JoinLoop(parts, sep, st, fuel \div 2)
       IN IF mid.done THEN mid ELSE JoinLoop(parts, sep, mid, fuel - (fuel \div 2))
Join(parts, sep) ==
  JoinLoop(parts, sep,
          [k |-> 1, acc |-> <<>>, done |-> FALSE], Len(parts) + 1).acc

\* t.split(None, 1): at most two fields, split on runs of whitespace
SplitWs1(t) ==
  LET a == LStrip(t)
      S == {i \in 1..Len(a) : a[i] \in Whitespace}
  IN IF a = <<>> THEN <<>>
     ELSE IF S = {} THEN <<a>>
     ELSE LET first == SubSeq(a, 1, MinOf(S) - 1)
              rest == LStrip(SubSeq(a, MinOf(S), Len(a)))
          IN IF rest = <<>> THEN <<first>> ELSE <<first, rest>>

(***************************************************************************)
(* Rich text (clean_content_parser.py).  A span is one element of a Notion *)
(* rich_text array; as in the code, a plain span has no annotations and    *)
(* an equation span has an expression and no annotations.                  *)
(***************************************************************************)
PlainSpan(c) == [type |-> "text", content |-> c]
AnnotatedSpan(c, b, i, cd) ==
  [type |-> "text", content |-> c,
   annotations |-> [bold |-> b, italic |-> i, code |-> cd]]
EquationSpan(e) == [type |-> "equation", expression |-> e]

\* the delimiters of the patterns of _parse_inline_formatting
Delim(format) ==
  CASE format = "equation" -> <<"$", "$">>
    [] format = "bold" -> <<"*", "*">>
    [] format = "italic" -> <<"*">>
    [] format = "code" -> <<Backquote>>
NoMatch == [start |-> -1, end |-> -1]

\* The leftmost match of  d(.+?)d  starting at or after from: the content is
\* the shortest non-empty run up to the next d and holds no newline.
\* For code, a backquote, [^backquote]+?, a backquote: the content holds no
\* backquote and may hold newlines.
MatchFrom(text, format, from) ==
  LET d == Delim(format)
      n == Len(d)
      closing(s) == Find(text, d, s + n + (IF format = "code" THEN 0 ELSE 1))
      closes(s, c) ==
        /\ c # -1
        /\ IF format = "code"
           THEN c > s + n
           ELSE \A k \in (s + n)..(c - 1) : At(text, k) # "\n"
      matches(s) == MatchAt(text, d, s) /\ closes(s, closing(s))
      found(s) == IF s = -1 THEN NoMatch ELSE [start |-> s, end |-> closing(s) + n]
  IN found(IF \E cand \in (from)..(Len(text) - n) : matches(cand)
           THEN CHOOSE cand \in (from)..(Len(text) - n) : matches(cand) /\ \A prev \in (from)..(cand - 1) : ~matches(prev)
           ELSE -1)

\* re.finditer(pattern, text): the matches from left to right, each search
\* resuming where the previous match ended
FindIterStep(text, format, st) ==
  LET next(m) ==
        IF m.start = -1 THEN [st EXCEPT !.done = TRUE]
        ELSE [st EXCEPT !.pos = m.end,
                !.acc = Append(st.acc,
                          [start |-> m.start, end |-> m.end, format |-> format,
                           content |-> Slice(text, m.start + Len(Delim(format)),
                                             m.end - Len(Delim(format)))])]
  IN next(MatchFrom(text, format, st.pos))
RECURSIVE FindIterLoop(_, _, _, _)
FindIterLoop(text, format, st, fuel) ==
  IF st.done THEN st
  ELSE IF fuel <= 1 THEN FindIterStep(text, format, st)
  ELSE LET mid == FindIterLoop(text, format, st, fuel \div 2)
       IN IF mid.done THEN mid ELSE FindIterLoop(text, format, mid, fuel - (fuel \div 2))
FindIter(text, format) ==
  FindIterLoop(text, format,
          [pos |-> 0, acc |-> <<>>, done |-> FALSE], Len(text) + 1).acc

\* lines 955-956: the new match starts or ends inside an accepted match
Overlaps(m, existing) ==
  \/ (m.start >= existing.start /\ m.start < existing.end)
  \/ (m.end > existing.start /\ m.end <= existing.end)

\* lines 951-967 for one pattern: keep each match that overlaps no match kept so far
KeepStep(found, st) ==
  IF st.k > Len(found) THEN [st EXCEPT !.done = TRUE]
  ELSE [st EXCEPT !.k = st.k + 1,
          !.matches =
             IF \E j \in 1..Len(st.matches) : Overlaps(found[st.k], st.matches[j])
             THEN st.matches ELSE Append(st.matches, found[st.k])]
RECURSIVE KeepLoop(_, _, _)
KeepLoop(found, st, fuel) ==
  IF st.done THEN st
  ELSE IF fuel <= 1 THEN KeepStep(found, st)
  ELSE LET mid == KeepLoop(found, st, fuel \div 2)
       IN IF mid.done THEN mid ELSE KeepLoop(found, mid, fuel - (fuel \div 2))
KeepNonOverlapping(matches, found) ==
  KeepLoop(found,
          [k |-> 1, matches |-> matches, done |-> FALSE], Len(found) + 1).matches

\* lines 941-967: the patterns in order of precedence
InlinePatterns == <<"equation", "bold", "italic", "code">>
CollectMatches(text) ==
  LET m1 == KeepNonOverlapping(<<>>, FindIter(text, InlinePatterns[1]))
      m2 == KeepNonOverlapping(m1, FindIter(text, InlinePatterns[2]))
      m3 == KeepNonOverlapping(m2, FindIter(text, InlinePatterns[3]))
  IN KeepNonOverlapping(m3, FindIter(text, InlinePatterns[4]))

\* matches.sort(key=start): a stable sort
SortByStart(ms) ==
  LET rank(i) == Cardinality({j \in 1..Len(ms) :
                    \/ ms[j].start < ms[i].start
                    \/ (ms[j].start = ms[i].start /\ j < i)})
  IN [k \in 1..Len(ms) |-> ms[CHOOSE i \in 1..Len(ms) : rank(i) = k - 1]]

\* the step that lets the equation inherit the style of the run around it
SplitAroundStepStyled(m, eqs, st) ==
  IF st.k > Len(eqs) THEN [st EXCEPT !.done = TRUE]
  ELSE LET eq == eqs[st.k]
           before == IF eq.start > st.inner_pos
                     THEN <<AnnotatedSpan(Slice(m.content, st.inner_pos, eq.start),
                                          m.format = "bold", m.format = "italic", FALSE)>>
                     ELSE <<>>
           styled == [type |-> "equation", expression |-> eq.content,
                      annotations |-> [bold |-> m.format = "bold",
                                       italic |-> m.format = "italic", code |-> FALSE]]
       IN [st EXCEPT !.k = st.k + 1,
                     !.inner_pos = eq.end,
                     !.parts = st.parts \o before \o <<styled>>]

\* lines 997-1035: a bold or italic content that holds equations, split around them
SplitAroundStep(m, eqs, st) ==
  IF st.k > Len(eqs) THEN [st EXCEPT !.done = TRUE]
  ELSE LET eq == eqs[st.k]
           before == IF eq.start > st.inner_pos
                     THEN <<AnnotatedSpan(Slice(m.content, st.inner_pos, eq.start),
                                          m.format = "bold", m.format = "italic", FALSE)>>
                     ELSE <<>>
       IN [st EXCEPT !.k = st.k + 1,
                     !.inner_pos = eq.end,
                     !.parts = st.parts \o before \o <<EquationSpan(eq.content)>>]
RECURSIVE SplitAroundLoop(_, _, _, _)
SplitAroundLoop(m, eqs, st, fuel) ==
  IF st.done THEN st
  ELSE IF fuel <= 1 THEN SplitAroundStep(m, eqs, st)
  ELSE LET mid == SplitAroundLoop(m, eqs, st, fuel \div 2)
       IN IF mid.done THEN mid ELSE SplitAroundLoop(m, eqs, mid, fuel - (fuel \div 2))
SplitAroundEquations(m, eqs) ==
  LET tail(st) ==
        st.parts \o
        (IF st.inner_pos < Len(m.content)
         THEN <<AnnotatedSpan(From(m.content, st.inner_pos),
                              m.format = "bold", m.format = "italic", FALSE)>>
         ELSE <<>>)
  IN tail(SplitAroundLoop(m, eqs,
                    [k |-> 1, inner_pos |-> 0, parts |-> <<>>, done |-> FALSE],
                    Len(eqs) + 1))

\* lines 984-1059: the spans of one match
MatchParts(m) ==
  IF m.format = "equation" THEN <<EquationSpan(m.content)>>
  ELSE IF m.format \in {"bold", "italic"}
  THEN LET around(eqs) ==
             IF eqs # <<>> THEN SplitAroundEquations(m, eqs)
             ELSE <<AnnotatedSpan(m.content, m.format = "bold", m.format = "italic", FALSE)>>
       IN around(FindIter(m.content, "equation"))
  ELSE <<AnnotatedSpan(m.content, FALSE, FALSE, m.format = "code")>>

\* lines 973-1061: one iteration of the loop over the sorted matches
BuildStep(text, ms, st) ==
  IF st.k > Len(ms) THEN [st EXCEPT !.done = TRUE]
  ELSE LET m == ms[st.k]
       IN IF st.current_pos > m.start THEN [st EXCEPT !.k = st.k + 1]
          ELSE [st EXCEPT !.k = st.k + 1,
                  !.current_pos = m.end,
                  !.parts = st.parts
                            \o (IF st.current_pos < m.start
                                THEN <<PlainSpan(Slice(text, st.current_pos, m.start))>>
                                ELSE <<>>)
                            \o MatchParts(m)]
RECURSIVE BuildLoop(_, _, _, _)
BuildLoop(text, ms, st, fuel) ==
  IF st.done THEN st
  ELSE IF fuel <= 1 THEN BuildStep(text, ms, st)
  ELSE LET mid == BuildLoop(text, ms, st, fuel \div 2)
       IN IF mid.done THEN mid ELSE BuildLoop(text, ms, mid, fuel - (fuel \div 2))

_parse_inline_formatting(text) ==
  LET result(parts) == IF parts = <<>> THEN <<PlainSpan(text)>> ELSE parts
      tail(st) == result(st.parts \o (IF st.current_pos < Len(text)
                                      THEN <<PlainSpan(From(text, st.current_pos))>>
                                      ELSE <<>>))
      build(ms) == tail(BuildLoop(text, ms,
                          [k |-> 1, current_pos |-> 0, parts |-> <<>>, done |-> FALSE],
                          Len(ms) + 1))
  IN build(SortByStart(CollectMatches(text)))


\* lines 921-927: one 1900-character chunk of a text longer than 2000
RichTextChunkStep(text, st) ==
  IF ~(st.current < Len(text)) THEN [st EXCEPT !.done = TRUE]
  ELSE [st EXCEPT !.current = st.current + 1900,
          !.chunks = st.chunks
                     \o _parse_inline_formatting(Slice(text, st.current, st.current + 1900))]
RECURSIVE RichTextChunkLoop(_, _, _)
RichTextChunkLoop(text, st, fuel) ==
  IF st.done THEN st
  ELSE IF fuel <= 1 THEN RichTextChunkStep(text, st)
  ELSE LET mid == RichTextChunkLoop(text, st, fuel \div 2)
       IN IF mid.done THEN mid ELSE RichTextChunkLoop(text, mid, fuel - (fuel \div 2))

_create_rich_text(text) ==
  IF Len(text) <= 2000 THEN _parse_inline_formatting(text)
  ELSE Slice(RichTextChunkLoop(text,
                     [current |-> 0, chunks |-> <<>>, done |-> FALSE],
                     Len(text) + 1).chunks,
             0, 100)

(***************************************************************************)
(* Blocks.  A Notion block {"object": "block", "type": T, T: {...}} is the *)
(* record of its type and of the fields of its body.                       *)
(***************************************************************************)
ParagraphOf(rich_text) == [type |-> "paragraph", rich_text |-> rich_text]

(***************************************************************************)
(* NotionService._split_long_content (notion_service.py 654-770)           *)
(***************************************************************************)
\* test = current + (sep if current else '') + piece
Glue(current, sep, piece) ==
  current \o (IF current # <<>> THEN sep ELSE <<>>) \o piece

\* lines 708-716: one sentence of a paragraph longer than the chunk size
SentenceStep(sentences, optimal_chunk_size, st) ==
  IF st.k > Len(sentences) THEN [st EXCEPT !.done = TRUE]
  ELSE LET sentence == sentences[st.k]
           test_sentence_chunk == Glue(st.temp_chunk, <<".", " ">>, sentence)
       IN IF Len(test_sentence_chunk) <= optimal_chunk_size
          THEN [st EXCEPT !.k = st.k + 1, !.temp_chunk = test_sentence_chunk]
          ELSE [st EXCEPT !.k = st.k + 1,
                  !.chunks = IF st.temp_chunk # <<>>
                             THEN Append(st.chunks, st.temp_chunk) ELSE st.chunks,
                  !.temp_chunk = sentence]
RECURSIVE SentenceLoop(_, _, _, _)
SentenceLoop(sentences, optimal_chunk_size, st, fuel) ==
  IF st.done THEN st
  ELSE IF fuel <= 1 THEN SentenceStep(sentences, optimal_chunk_size, st)
  ELSE LET mid == SentenceLoop(sentences, optimal_chunk_size, st, fuel \div 2)
       IN IF mid.done THEN mid ELSE SentenceLoop(sentences, optimal_chunk_size, mid, fuel - (fuel \div 2))

\* lines 691-720: one paragraph of the content
ParagraphStep(paragraphs, optimal_chunk_size, st) ==
  IF st.k > Len(paragraphs) THEN [st EXCEPT !.done = TRUE]
  ELSE LET paragraph == paragraphs[st.k]
           test_chunk == Glue(st.current_chunk, <<"\n", "\n">>, paragraph)
           saved == IF st.current_chunk # <<>>
                    THEN Append(st.chunks, st.current_chunk) ELSE st.chunks
       IN IF Len(test_chunk) <= optimal_chunk_size
          THEN [st EXCEPT !.k = st.k + 1, !.current_chunk = test_chunk]
          ELSE IF Len(paragraph) > optimal_chunk_size
          THEN LET after(inner) == [st EXCEPT !.k = st.k + 1, !.chunks = inner.chunks,
                                                !.current_chunk = inner.temp_chunk]
                   pack(sentences) ==
                     after(SentenceLoop(sentences, optimal_chunk_size,
                                    [k |-> 1, chunks |-> saved, temp_chunk |-> <<>>,
                                     done |-> FALSE],
                                    Len(sentences) + 1))
               IN pack(Split(paragraph, <<".", " ">>))
          ELSE [st EXCEPT !.k = st.k + 1, !.chunks = saved, !.current_chunk = paragraph]
RECURSIVE ParagraphLoop(_, _, _, _)
ParagraphLoop(paragraphs, optimal_chunk_size, st, fuel) ==
  IF st.done THEN st
  ELSE IF fuel <= 1 THEN ParagraphStep(paragraphs, optimal_chunk_size, st)
  ELSE LET mid == ParagraphLoop(paragraphs, optimal_chunk_size, st, fuel \div 2)
       IN IF mid.done THEN mid ELSE ParagraphLoop(paragraphs, optimal_chunk_size, mid, fuel - (fuel \div 2))

\* lines 732-740: one chunk of the merge that runs when there are too many chunks
MergeStep(chunks, max_blocks, st) ==
  IF st.k > Len(chunks) THEN [st EXCEPT !.done = TRUE]
  ELSE LET chunk == chunks[st.k]
           test_merged == Glue(st.current_merged, <<"\n", "\n">>, chunk)
       IN IF Len(test_merged) <= 1900 /\ Len(st.merged_chunks) < max_blocks - 1
          THEN [st EXCEPT !.k = st.k + 1, !.current_merged = test_merged]
          ELSE [st EXCEPT !.k = st.k + 1,
                  !.merged_chunks = IF st.current_merged # <<>>
                                    THEN Append(st.merged_chunks, st.current_merged)
                                    ELSE st.merged_chunks,
                  !.current_merged = chunk]
RECURSIVE MergeLoop(_, _, _, _)
MergeLoop(chunks, max_blocks, st, fuel) ==
  IF st.done THEN st
  ELSE IF fuel <= 1 THEN MergeStep(chunks, max_blocks, st)
  ELSE LET mid == MergeLoop(chunks, max_blocks, st, fuel \div 2)
       IN IF mid.done THEN mid ELSE MergeLoop(chunks, max_blocks, mid, fuel - (fuel \div 2))

\* lines 748-767: the block of one chunk, cut to 1997 characters and "..."
\* when it is longer than 2000
ChunkBlock(chunk) ==
  ParagraphOf(<<PlainSpan(IF Len(chunk) > 2000
                          THEN Slice(chunk, 0, 1997) \o <<".", ".", ".">>
                          ELSE chunk)>>)

\* lines 675-770: the path taken by a content longer than max_length
SplitLongPath(content, max_length, max_blocks) ==
  LET total_length == Len(content)
      optimal_chunk_size == Min2(Max2(total_length \div max_blocks, max_length), max_length)
      \* lines 748-767
      blocks(final) == [i \in 1..Len(final) |-> ChunkBlock(final[i])]
      \* lines 741-745
      flush(merged) == blocks(IF merged.current_merged # <<>>
                              THEN Append(merged.merged_chunks, merged.current_merged)
                              ELSE merged.merged_chunks)
      \* lines 726-745
      merge(chunks) ==
        IF Len(chunks) > max_blocks
        THEN flush(MergeLoop(chunks, max_blocks,
                        [k |-> 1, merged_chunks |-> <<>>, current_merged |-> <<>>,
                         done |-> FALSE],
                        Len(chunks) + 1))
        ELSE blocks(chunks)
      \* lines 722-724
      last(packed) == merge(IF packed.current_chunk # <<>>
                            THEN Append(packed.chunks, packed.current_chunk)
                            ELSE packed.chunks)
      pack(paragraphs) ==
        last(ParagraphLoop(paragraphs, optimal_chunk_size,
                        [k |-> 1, chunks |-> <<>>, current_chunk |-> <<>>, done |-> FALSE],
                        Len(paragraphs) + 1))
  IN pack(Split(content, <<"\n", "\n">>))

_split_long_content(content, max_length, max_blocks) ==
  IF Len(content) <= max_length THEN <<ParagraphOf(<<PlainSpan(content)>>)>>
  ELSE SplitLongPath(content, max_length, max_blocks)

\* f"heading_{level}"
HeadingType(level) ==
  CASE level = 1 -> "heading_1"
    [] level = 2 -> "heading_2"
    [] level = 3 -> "heading_3"

_create_heading(text, level) ==
  [type |-> HeadingType(level), rich_text |-> _create_rich_text(text)]

_create_paragraph(text) == ParagraphOf(_create_rich_text(text))

_create_bullet(text) ==
  [type |-> "bulleted_list_item", rich_text |-> _create_rich_text(text)]

_create_numbered_item(text) ==
  [type |-> "numbered_list_item", rich_text |-> _create_rich_text(text)]

_create_equation_block(expression) ==
  [type |-> "equation", expression |-> Slice(expression, 0, 2000)]

\* lines 860-881: alias -> Notion language
lang_map ==
  << <<<<"p", "y">>, <<"p", "y", "t", "h", "o", "n">>>>, <<<<"j", "s">>, <<"j", "a", "v", "a", "s",
      "c", "r", "i", "p", "t">>>>, <<<<"j", "s", "x">>, <<"j", "a", "v", "a", "s", "c", "r", "i",
      "p", "t">>>>,
     <<<<"r", "e", "a", "c", "t">>, <<"j", "a", "v", "a", "s", "c", "r", "i", "p", "t">>>>,
         <<<<"t", "s", "x">>, <<"t", "y", "p", "e", "s", "c", "r", "i", "p", "t">>>>, <<<<"t",
         "s">>, <<"t", "y", "p", "e", "s", "c", "r", "i", "p", "t">>>>,
     <<<<"c", "p", "p">>, <<"c", "+", "+">>>>, <<<<"c", "+", "+">>, <<"c", "+", "+">>>>, <<<<"c",
         "x", "x">>, <<"c", "+", "+">>>>,
     <<<<"s", "h">>, <<"s", "h", "e", "l", "l">>>>, <<<<"b", "a", "s", "h">>, <<"s", "h", "e", "l",
         "l">>>>, <<<<"z", "s", "h">>, <<"s", "h", "e", "l", "l">>>>,
     <<<<"y", "m", "l">>, <<"y", "a", "m", "l">>>>, <<<<"d", "o", "c", "k", "e", "r", "f", "i",
         "l", "e">>, <<"d", "o", "c", "k", "e", "r">>>>, <<<<"m", "a", "k", "e", "f", "i", "l",
         "e">>, <<"m", "a", "k", "e", "f", "i", "l", "e">>>>,
     <<<<"t", "x", "t">>, <<"p", "l", "a", "i", "n", " ", "t", "e", "x", "t">>>>, <<<<"t", "e",
         "x", "t">>, <<"p", "l", "a", "i", "n", " ", "t", "e", "x", "t">>>>,
     <<<<"p", "l", "a", "i", "n", "t", "e", "x", "t">>, <<"p", "l", "a", "i", "n", " ", "t", "e",
         "x", "t">>>>, <<<<"c", "o", "n", "s", "o", "l", "e">>, <<"s", "h", "e", "l", "l">>>>,
     <<<<"c", "m", "d">>, <<"p", "o", "w", "e", "r", "s", "h", "e", "l", "l">>>> >>

\* lines 887-899
valid_languages ==
  { <<"a", "b", "a", "p">>, <<"a", "b", "c">>, <<"a", "g", "d", "a">>, <<"a", "r", "d", "u", "i",
      "n", "o">>, <<"a", "s", "c", "i", "i", " ", "a", "r", "t">>, <<"a", "s", "s", "e", "m", "b",
      "l", "y">>, <<"b", "a", "s", "h">>,
    <<"b", "a", "s", "i", "c">>, <<"b", "n", "f">>, <<"c">>, <<"c", "#">>, <<"c", "+", "+">>,
        <<"c", "l", "o", "j", "u", "r", "e">>, <<"c", "o", "f", "f", "e", "e", "s", "c", "r", "i",
        "p", "t">>, <<"c", "o", "q">>,
    <<"c", "s", "s">>, <<"d", "a", "r", "t">>, <<"d", "h", "a", "l", "l">>, <<"d", "i", "f", "f">>,
        <<"d", "o", "c", "k", "e", "r">>, <<"e", "b", "n", "f">>, <<"e", "l", "i", "x", "i", "r">>,
        <<"e", "l", "m">>,
    <<"e", "r", "l", "a", "n", "g">>, <<"f", "#">>, <<"f", "l", "o", "w">>, <<"f", "o", "r", "t",
        "r", "a", "n">>, <<"g", "h", "e", "r", "k", "i", "n">>, <<"g", "l", "s", "l">>, <<"g",
        "o">>, <<"g", "r", "a", "p", "h", "q", "l">>,
    <<"g", "r", "o", "o", "v", "y">>, <<"h", "a", "s", "k", "e", "l", "l">>, <<"h", "c", "l">>,
        <<"h", "t", "m", "l">>, <<"i", "d", "r", "i", "s">>, <<"j", "a", "v", "a">>, <<"j", "a",
        "v", "a", "s", "c", "r", "i", "p", "t">>,
    <<"j", "s", "o", "n">>, <<"j", "u", "l", "i", "a">>, <<"k", "o", "t", "l", "i", "n">>, <<"l",
        "a", "t", "e", "x">>, <<"l", "e", "s", "s">>, <<"l", "i", "s", "p">>, <<"l", "i", "v", "e",
        "s", "c", "r", "i", "p", "t">>,
    <<"l", "l", "v", "m", " ", "i", "r">>, <<"l", "u", "a">>, <<"m", "a", "k", "e", "f", "i", "l",
        "e">>, <<"m", "a", "r", "k", "d", "o", "w", "n">>, <<"m", "a", "r", "k", "u", "p">>, <<"m",
        "a", "t", "l", "a", "b">>,
    <<"m", "a", "t", "h", "e", "m", "a", "t", "i", "c", "a">>, <<"m", "e", "r", "m", "a", "i",
        "d">>, <<"n", "i", "x">>, <<"n", "o", "t", "i", "o", "n", " ", "f", "o", "r", "m", "u",
        "l", "a">>, <<"o", "b", "j", "e", "c", "t", "i", "v", "e", "-", "c">>, <<"o", "c", "a",
        "m", "l">>,
    <<"p", "a", "s", "c", "a", "l">>, <<"p", "e", "r", "l">>, <<"p", "h", "p">>, <<"p", "l", "a",
        "i", "n", " ", "t", "e", "x", "t">>, <<"p", "o", "w", "e", "r", "s", "h", "e", "l", "l">>,
        <<"p", "r", "o", "l", "o", "g">>,
    <<"p", "r", "o", "t", "o", "b", "u", "f">>, <<"p", "u", "r", "e", "s", "c", "r", "i", "p",
        "t">>, <<"p", "y", "t", "h", "o", "n">>, <<"r">>, <<"r", "a", "c", "k", "e", "t">>, <<"r",
        "e", "a", "s", "o", "n">>, <<"r", "u", "b", "y">>,
    <<"r", "u", "s", "t">>, <<"s", "a", "s", "s">>, <<"s", "c", "a", "l", "a">>, <<"s", "c", "h",
        "e", "m", "e">>, <<"s", "c", "s", "s">>, <<"s", "h", "e", "l", "l">>, <<"s", "m", "a", "l",
        "l", "t", "a", "l", "k">>,
    <<"s", "o", "l", "i", "d", "i", "t", "y">>, <<"s", "q", "l">>, <<"s", "w", "i", "f", "t">>,
        <<"t", "o", "m", "l">>, <<"t", "y", "p", "e", "s", "c", "r", "i", "p", "t">>, <<"v", "b",
        ".", "n", "e", "t">>, <<"v", "e", "r", "i", "l", "o", "g">>,
    <<"v", "h", "d", "l">>, <<"v", "i", "s", "u", "a", "l", " ", "b", "a", "s", "i", "c">>, <<"w",
        "e", "b", "a", "s", "s", "e", "m", "b", "l", "y">>, <<"x", "m", "l">>, <<"y", "a", "m",
        "l">>, <<"j", "a", "v", "a", "/", "c", "/", "c", "+", "+", "/", "c", "#">> }

\* line 884: lang_map.get(language.lower().strip(), language.lower().strip())
NormalizeLanguage(language) ==
  LET key == Strip(Lower(language))
      hits == {k \in 1..Len(lang_map) : lang_map[k][1] = key}
  IN IF hits = {} THEN key ELSE lang_map[MinOf(hits)][2]

\* the code block whose language is normalized and not validated
CodeBlockUnvalidated(code, language) ==
  [type |-> "code", rich_text |-> <<PlainSpan(Slice(code, 0, 2000))>>,
   language |-> NormalizeLanguage(language)]

_create_code_block(code, language) ==
  LET normalized_lang == NormalizeLanguage(language)
      final_language == IF normalized_lang \in valid_languages
                        THEN normalized_lang ELSE <<"p", "l", "a", "i", "n", " ", "t", "e", "x",
                            "t">>
  IN [type |-> "code", rich_text |-> <<PlainSpan(Slice(code, 0, 2000))>>,
      language |-> final_language]

(***************************************************************************)
(* urllib.parse as _create_image_block uses it.  URLs are ASCII and hold   *)
(* no square bracket pair; a lone bracket in the host makes urlparse raise.*)
(***************************************************************************)
SchemeChars == {"+", "-", "."}

\* urlsplit: the scheme is what precedes the first colon when it starts with
\* a letter and holds only letters, digits, "+", "-" and "."
UrlSchemeEnd(url) ==
  LET i == Find(url, <<":">>, 0)
  IN IF /\ i > 0
        /\ IsAlpha(url[1])
        /\ \A k \in 1..i : IsAlpha(url[k]) \/ url[k] \in Digits \/ url[k] \in SchemeChars
     THEN i ELSE -1

FirstOf(t, chars, from) ==
  LET hit(k) == t[k + 1] \in chars
      i == IF \E cand \in (from)..(Len(t) - 1) : hit(cand)
           THEN CHOOSE cand \in (from)..(Len(t) - 1) : hit(cand) /\ \A prev \in (from)..(cand - 1) : ~hit(prev)
           ELSE -1
  IN IF i = -1 THEN Len(t) ELSE i

\* the schemes whose path urlparse separates from its ;params
uses_params ==
  { <<>>, <<"f", "t", "p">>, <<"h", "d", "l">>, <<"p", "r", "o", "s", "p", "e", "r", "o">>, <<"h",
      "t", "t", "p">>, <<"i", "m", "a", "p">>, <<"h", "t", "t", "p", "s">>, <<"s", "h", "t", "t",
      "p">>,
    <<"r", "t", "s", "p">>, <<"r", "t", "s", "p", "u">>, <<"s", "i", "p">>, <<"s", "i", "p", "s">>,
        <<"m", "m", "s">>, <<"s", "f", "t", "p">>, <<"t", "e", "l">> }

\* urlparse(url): scheme, netloc, path (without its ;params), query; the
\* fragment is dropped by the caller
urlparse(url) ==
  LET \* the path without its ;params, which start at the first ";" of the last segment
      result(scheme, netloc, fullpath, query, semi) ==
        [raises |-> (Contains(netloc, <<"[">>) # Contains(netloc, <<"]">>)),
         scheme |-> scheme, netloc |-> netloc,
         path |-> IF scheme \in uses_params /\ semi >= 0
                  THEN Slice(fullpath, 0, semi) ELSE fullpath,
         query |-> query]
      params(scheme, netloc, fullpath, query, slash) ==
        result(scheme, netloc, fullpath, query,
               Find(fullpath, <<";">>, IF slash < 0 THEN 0 ELSE slash))
      \* the query follows the first "?"
      pathAndQuery(scheme, netloc, nofrag, qe) ==
        params(scheme, netloc, Slice(nofrag, 0, qe),
               IF qe < Len(nofrag) THEN From(nofrag, qe + 1) ELSE <<>>,
               RFind(Slice(nofrag, 0, qe), <<"/">>))
      \* the fragment follows the first "#"
      defrag(scheme, netloc, tail, fe) ==
        pathAndQuery(scheme, netloc, Slice(tail, 0, fe),
                     FirstOf(Slice(tail, 0, fe), {"?"}, 0))
      \* the netloc follows "//" and ends at the first "/", "?" or "#"
      afterNetloc(scheme, netloc, tail) ==
        defrag(scheme, netloc, tail, FirstOf(tail, {"#"}, 0))
      netlocOf(scheme, rest, hasNet, ne) ==
        afterNetloc(scheme, IF hasNet THEN Slice(rest, 2, ne) ELSE <<>>, From(rest, ne))
      afterScheme(scheme, rest, hasNet) ==
        netlocOf(scheme, rest, hasNet,
                 IF hasNet THEN FirstOf(rest, {"/", "?", "#"}, 2) ELSE 0)
      schemeOf(scheme, rest) == afterScheme(scheme, rest, StartsWith(rest, <<"/", "/">>))
      split(se) == schemeOf(IF se > 0 THEN Lower(Slice(url, 0, se)) ELSE <<>>,
                            IF se > 0 THEN From(url, se + 1) ELSE url)
  IN split(UrlSchemeEnd(url))

\* the %XX form of the ASCII characters that quote() can escape
PercentCode ==
  (" " :> <<"%", "2", "0">>) @@ ("!" :> <<"%", "2", "1">>) @@ ("\"" :> <<"%", "2",
      "2">>) @@ ("#" :> <<"%", "2", "3">>) @@
  ("$" :> <<"%", "2", "4">>) @@ ("%" :> <<"%", "2", "5">>) @@ ("&" :> <<"%", "2",
      "6">>) @@ ("'" :> <<"%", "2", "7">>) @@
  ("(" :> <<"%", "2", "8">>) @@ (")" :> <<"%", "2", "9">>) @@ ("*" :> <<"%", "2",
      "A">>) @@ ("+" :> <<"%", "2", "B">>) @@
  ("," :> <<"%", "2", "C">>) @@ ("/" :> <<"%", "2", "F">>) @@ (":" :> <<"%", "3",
      "A">>) @@ (";" :> <<"%", "3", "B">>) @@
  ("<" :> <<"%", "3", "C">>) @@ ("=" :> <<"%", "3", "D">>) @@ (">" :> <<"%", "3",
      "E">>) @@ ("?" :> <<"%", "3", "F">>) @@
  ("@" :> <<"%", "4", "0">>) @@ ("[" :> <<"%", "5", "B">>) @@ ("\\" :> <<"%", "5",
      "C">>) @@ ("]" :> <<"%", "5", "D">>) @@
  ("^" :> <<"%", "5", "E">>) @@ (Backquote :> <<"%", "6", "0">>) @@ ("{" :> <<"%", "7",
      "B">>) @@ ("|" :> <<"%", "7", "C">>) @@
  ("}" :> <<"%", "7", "D">>) @@ ("\n" :> <<"%", "0", "A">>) @@ ("\t" :> <<"%", "0", "9">>)

QuoteStep(t, safe, st) ==
  IF st.k > Len(t) THEN [st EXCEPT !.done = TRUE]
  ELSE LET c == t[st.k]
       IN [st EXCEPT !.k = st.k + 1,
             !.acc = st.acc \o (IF c \in safe \/ c \notin DOMAIN PercentCode
                                THEN <<c>> ELSE PercentCode[c])]
RECURSIVE QuoteLoop(_, _, _, _)
QuoteLoop(t, safe, st, fuel) ==
  IF st.done THEN st
  ELSE IF fuel <= 1 THEN QuoteStep(t, safe, st)
  ELSE LET mid == QuoteLoop(t, safe, st, fuel \div 2)
       IN IF mid.done THEN mid ELSE QuoteLoop(t, safe, mid, fuel - (fuel \div 2))

\* urllib.parse.quote(t, safe=safe): letters, digits, "_", ".", "-", "~" and
\* the safe characters stay, every other character becomes %XX
quote(t, safe) ==
  QuoteLoop(t, safe, [k |-> 1, acc |-> <<>>, done |-> FALSE],
          Len(t) + 1).acc

\* lines 777-780
problematic_patterns ==
  { <<"l", "o", "c", "a", "l", "h", "o", "s", "t">>, <<"1", "2", "7", ".", "0", ".", "0", ".",
      "1">>, <<"f", "i", "l", "e", ":", "/", "/">>, <<"d", "a", "t", "a", ":", "i", "m", "a", "g",
      "e">>, <<"b", "l", "o", "b", ":">>,
    <<"j", "a", "v", "a", "s", "c", "r", "i", "p", "t", ":">>, <<"a", "b", "o", "u", "t", ":">> }

\* caption or default
Or(caption, default) == IF caption # <<>> THEN caption ELSE default

_create_image_block(image_url, caption) ==
  LET encoded_url(parsed) ==
                     parsed.scheme \o <<":", "/", "/">> \o parsed.netloc
                     \o quote(parsed.path, {"/", ":"})
                     \o (IF parsed.query # <<>>
                         THEN <<"?">> \o quote(parsed.query, {"&", "="}) ELSE <<>>)
      block(url_lower, parsed) ==
     IF image_url = <<>> \/ Len(image_url) > 2000
     THEN ParagraphOf(<<PlainSpan(<<"[", "I", "m", "a", "g", "e", ":", " ">> \o Or(caption, <<"U",
         "n", "t", "i", "t", "l", "e", "d">>) \o <<"]">>)>>)
     ELSE IF \E pattern \in problematic_patterns : Contains(url_lower, pattern)
     THEN ParagraphOf(<<PlainSpan(<<Camera>> \o <<" ", "[", "I", "m", "a", "g", "e", " ", "n", "o",
         "t", " ", "a", "c", "c", "e", "s", "s", "i", "b", "l", "e", ":", " ">>
                                  \o Or(caption, <<"E", "x", "t", "e", "r", "n", "a", "l", " ",
                                      "i", "m", "a", "g", "e">>) \o <<"]">>)>>)
     ELSE IF parsed.raises
     THEN ParagraphOf(<<PlainSpan(<<Camera>> \o <<" ", "[", "I", "m", "a", "g", "e", ":", " ">>
                                  \o Or(caption, <<"U", "n", "t", "i", "t", "l", "e",
                                      "d">>) \o <<"]">>)>>)
     ELSE IF parsed.scheme = <<>> \/ parsed.netloc = <<>>
     THEN ParagraphOf(<<PlainSpan(<<Camera>> \o <<" ", "[", "I", "n", "v", "a", "l", "i", "d", " ",
         "i", "m", "a", "g", "e", " ", "U", "R", "L", ":", " ">>
                                  \o Or(caption, <<"U", "n", "t", "i", "t", "l", "e",
                                      "d">>) \o <<"]">>)>>)
     ELSE IF caption # <<>>
     THEN [type |-> "image", url |-> encoded_url(parsed),
           caption |-> <<PlainSpan(Slice(caption, 0, 2000))>>]
     ELSE [type |-> "image", url |-> encoded_url(parsed)]
  IN block(Lower(image_url), urlparse(image_url))

(***************************************************************************)
(* CleanContentParser._markdown_to_notion_blocks and its helpers           *)
(***************************************************************************)
Fence == <<Backquote, Backquote, Backquote>>

\* the end of a match of  ^\d+\.\s+  at the start of line, or -1
NumberedPrefixEnd(line) ==
  LET d == FirstOf(line, {c \in {line[i] : i \in 1..Len(line)} : c \notin Digits}, 0)
      afterDot == From(line, d + 1)
      w == Len(afterDot) - Len(LStrip(afterDot))
  IN IF d >= 1 /\ d < Len(line) /\ At(line, d) = "." /\ w >= 1
     THEN d + 1 + w ELSE -1

\* re.match(r'^\d+\.\s+(.+)$', line): the match needs a character after the spaces
NumberedMatches(line) ==
  NumberedPrefixEnd(line) >= 0 /\ NumberedPrefixEnd(line) < Len(line)

_is_special_line(raw) ==
  LET line == LStrip(raw)
  IN \/ StartsWith(line, <<"#">>)
     \/ StartsWith(line, <<"-", " ">>)
     \/ StartsWith(line, <<"*", " ">>)
     \/ StartsWith(line, Fence)
     \/ StartsWith(line, <<"|">>)
     \/ NumberedPrefixEnd(line) >= 0

\* cells = [cell.strip() for cell in line.split('|')], without the empty ones
TableCells(line) ==
  LET parts == Split(line, <<"|">>)
  IN SelectSeq([k \in 1..Len(parts) |-> Strip(parts[k])], LAMBDA c : c # <<>>)

\* re.match(r'^:?-+:?$', cell)
IsSeparatorCell(cell) ==
  LET a == IF StartsWith(cell, <<":">>) THEN From(cell, 1) ELSE cell
      b == IF EndsWith(a, <<":">>) THEN Slice(a, 0, Len(a) - 1) ELSE a
  IN b # <<>> /\ \A i \in 1..Len(b) : b[i] = "-"

\* row padded with "" and cut to num_columns cells, each as rich text
TableRow(cells, num_columns) ==
  [k \in 1..num_columns |->
     _create_rich_text(IF k <= Len(cells) THEN cells[k] ELSE <<>>)]

\* the table that is emitted for a header row without data rows
TableOfHeaderAlone(table_lines) ==
  LET \* the header row is first, the data rows follow
      table(data, num_columns) ==
        IF Len(data) < 1 THEN <<>>
        ELSE <<[type |-> "table", table_width |-> num_columns,
                children |-> [k \in 1..Len(data) |-> TableRow(data[k], num_columns)]]>>
      rows(data) == table(data, IF data = <<>> THEN 0 ELSE Len(Head(data)))
      \* separator rows and rows without cells are passed over
  IN rows(SelectSeq([k \in 1..Len(table_lines) |-> TableCells(table_lines[k])],
                    LAMBDA cells : ~(\A i \in 1..Len(cells) : IsSeparatorCell(cells[i]))))

_parse_markdown_table(table_lines) ==
  LET \* the header row is first, the data rows follow
      table(data, num_columns) ==
        IF Len(data) < 2 THEN <<>>
        ELSE <<[type |-> "table", table_width |-> num_columns,
                children |-> [k \in 1..Len(data) |-> TableRow(data[k], num_columns)]]>>
      rows(data) == table(data, IF data = <<>> THEN 0 ELSE Len(Head(data)))
      \* separator rows and rows without cells are passed over
  IN rows(SelectSeq([k \in 1..Len(table_lines) |-> TableCells(table_lines[k])],
                    LAMBDA cells : ~(\A i \in 1..Len(cells) : IsSeparatorCell(cells[i]))))

\* an image ![alt](url) starting at p:  !\[([^\]]*)\]\(([^)]+)\)
ImageAt(t, p) ==
  LET image(q, r) ==
        IF MatchAt(t, <<"!", "[">>, p) /\ q >= 0 /\ MatchAt(t, <<"(">>, q + 1) /\ r >= q + 3
        THEN [start |-> p, end |-> r + 1, alt |-> Slice(t, p + 2, q),
              url |-> Slice(t, q + 2, r)]
        ELSE NoMatch
      alt(q) == image(q, Find(t, <<")">>, q + 2))
  IN alt(Find(t, <<"]">>, p + 2))

\* re.findall(image_pattern, line) together with re.sub(image_pattern, '', line)
ImageScanStep(t, st) ==
  LET hit(q) == ImageAt(t, q).start >= 0
      take(m) == [st EXCEPT !.pos = m.end,
                    !.images = Append(st.images, m),
                    !.rest = st.rest \o Slice(t, st.pos, m.start)]
      next(p) == IF p = -1
                 THEN [st EXCEPT !.done = TRUE, !.rest = st.rest \o From(t, st.pos)]
                 ELSE take(ImageAt(t, p))
  IN next(IF \E cand \in (st.pos)..(Len(t) - 1) : hit(cand)
          THEN CHOOSE cand \in (st.pos)..(Len(t) - 1) : hit(cand) /\ \A prev \in (st.pos)..(cand - 1) : ~hit(prev)
          ELSE -1)
RECURSIVE ImageScanLoop(_, _, _)
ImageScanLoop(t, st, fuel) ==
  IF st.done THEN st
  ELSE IF fuel <= 1 THEN ImageScanStep(t, st)
  ELSE LET mid == ImageScanLoop(t, st, fuel \div 2)
       IN IF mid.done THEN mid ELSE ImageScanLoop(t, mid, fuel - (fuel \div 2))
ImageScan(t) ==
  ImageScanLoop(t,
          [pos |-> 0, images |-> <<>>, rest |-> <<>>, done |-> FALSE], Len(t) + 1)

\* lines 522-530: the blocks of the images of one line
ImageBlocks(images) ==
  LET valid(url) == url # <<>> /\ (StartsWith(url, <<"h", "t", "t", "p", ":", "/", "/">>)
                                   \/ StartsWith(url, <<"h", "t", "t", "p", "s", ":",
                                       "/", "/">>))
      blocks(urls) ==
        LET ok == SelectSeq([k \in 1..Len(images) |-> k], LAMBDA k : valid(urls[k]))
        IN [j \in 1..Len(ok) |-> _create_image_block(urls[ok[j]], images[ok[j]].alt)]
  IN blocks([k \in 1..Len(images) |-> Strip(Head(Split(images[k].url, <<"\"">>)))])

\* the chunks of 2000 characters of the code
Chunks2000(code_content) ==
  [k \in 1..((Len(code_content) + 1999) \div 2000) |->
     Slice(code_content, (k - 1) * 2000, k * 2000)]

\* code_content[i:i+1900] for i in range(0, len(code_content), 1900)
Chunks1900(code_content) ==
  [k \in 1..((Len(code_content) + 1899) \div 1900) |->
     Slice(code_content, (k - 1) * 1900, k * 1900)]

\* The scans below give the first index j in from..Len(lines) (0-based,
\* Len(lines) when there is none) whose line stops the scan.
\* line 462: while i < len(lines) and not lines[i].lstrip().startswith(fence)
ScanToFence(lines, from) ==
  LET hit(k) == StartsWith(LStrip(lines[k + 1]), Fence)
      stop(j) == IF j = -1 THEN Len(lines) ELSE j
  IN stop(IF \E cand \in (from)..(Len(lines) - 1) : hit(cand)
          THEN CHOOSE cand \in (from)..(Len(lines) - 1) : hit(cand) /\ \A prev \in (from)..(cand - 1) : ~hit(prev)
          ELSE -1)
\* line 560: while i < len(lines) and lines[i].strip().startswith('|')
ScanToTableEnd(lines, from) ==
  LET hit(k) == ~StartsWith(Strip(lines[k + 1]), <<"|">>)
      stop(j) == IF j = -1 THEN Len(lines) ELSE j
  IN stop(IF \E cand \in (from)..(Len(lines) - 1) : hit(cand)
          THEN CHOOSE cand \in (from)..(Len(lines) - 1) : hit(cand) /\ \A prev \in (from)..(cand - 1) : ~hit(prev)
          ELSE -1)
\* line 574: while i < len(lines) and lines[i] and not self._is_special_line(lines[i])
ScanToParaEnd(lines, from) ==
  LET hit(k) == lines[k + 1] = <<>> \/ _is_special_line(lines[k + 1])
      stop(j) == IF j = -1 THEN Len(lines) ELSE j
  IN stop(IF \E cand \in (from)..(Len(lines) - 1) : hit(cand)
          THEN CHOOSE cand \in (from)..(Len(lines) - 1) : hit(cand) /\ \A prev \in (from)..(cand - 1) : ~hit(prev)
          ELSE -1)

\* the same-line fence that also passes over the line that follows it
SameLineFenceSkipping(st, lang_and_code) ==
  [st EXCEPT !.i = st.i + 2,
     !.blocks = IF Len(lang_and_code) = 2
                THEN Append(st.blocks,
                            _create_code_block(lang_and_code[2], lang_and_code[1]))
                ELSE st.blocks]

\* the same-line fence that leaves the cursor on its line
SameLineFenceStaying(st, lang_and_code) ==
  [st EXCEPT !.blocks = IF Len(lang_and_code) = 2
                        THEN Append(st.blocks,
                                    _create_code_block(lang_and_code[2], lang_and_code[1]))
                        ELSE st.blocks]

\* lines 427-444: the fence closes on the line that opens it; lang_and_code is
\* opening_part.split(None, 1)
SameLineFence(st, lang_and_code) ==
  [st EXCEPT !.i = st.i + 1,
     !.blocks = IF Len(lang_and_code) = 2
                THEN Append(st.blocks,
                            _create_code_block(lang_and_code[2], lang_and_code[1]))
                ELSE st.blocks]

\* lines 419-478: a line that opens a fence
FenceStep(lines, st, stripped_line) ==
  LET rest_of_line == From(stripped_line, 3)
      \* lines 446-478: the fence closes on a later line, or never
      emit(close, code_lines, code_chunks, language) ==
        [st EXCEPT !.i = close + 1,
           !.blocks = IF code_lines = <<>> THEN st.blocks
                      ELSE st.blocks \o [k \in 1..Len(code_chunks) |->
                                           _create_code_block(code_chunks[k], language)]]
      chunked(close, code_lines, code_content, language) ==
        emit(close, code_lines,
             IF Len(code_content) <= 2000 THEN <<code_content>>
             ELSE Chunks1900(code_content),
             language)
      joined(close, code_lines, language) ==
        chunked(close, code_lines, Join(code_lines, <<"\n">>), language)
      multi_line(parts, close) ==
        joined(close,
               (IF Len(parts) = 2 THEN <<parts[2]>> ELSE <<>>)
               \o SubSeq(lines, st.i + 2, close),
               IF Len(parts) >= 1 THEN parts[1]
               ELSE <<"p", "l", "a", "i", "n", " ", "t", "e", "x", "t">>)
  IN IF Contains(rest_of_line, Fence)
     THEN SameLineFence(st,
            SplitWs1(Strip(Slice(rest_of_line, 0, Find(rest_of_line, Fence, 0)))))
     ELSE multi_line(SplitWs1(rest_of_line), ScanToFence(lines, st.i + 1))

\* lines 409-579: one iteration of the loop over the lines
LexStep(lines, st) ==
  IF ~(st.i < Len(lines)) THEN [st EXCEPT !.done = TRUE]
  ELSE
  LET line == RStrip(lines[st.i + 1])
      stripped_line == LStrip(line)
      one(b) == [st EXCEPT !.i = st.i + 1, !.blocks = Append(st.blocks, b)]
      \* lines 557-568: the lines of a table
      table(tableEnd) ==
        [st EXCEPT !.i = tableEnd,
           !.blocks = st.blocks
                      \o _parse_markdown_table([k \in 1..(tableEnd - st.i) |->
                                                  Strip(lines[st.i + k])])]
      \* lines 571-579: the lines of a paragraph
      paragraph(paraEnd) ==
        [st EXCEPT !.i = paraEnd,
           !.blocks = Append(st.blocks,
                        _create_paragraph(Join(<<line>> \o SubSeq(lines, st.i + 2, paraEnd),
                                               <<" ">>)))]
      \* lines 544-579: a list item, a table or a paragraph
      others ==
        IF StartsWith(line, <<"-", " ">>) \/ StartsWith(line, <<"*", " ">>)
        THEN one(_create_bullet(Strip(From(line, 2))))
        ELSE IF NumberedMatches(line)
        THEN one(_create_numbered_item(From(line, NumberedPrefixEnd(line))))
        ELSE IF StartsWith(line, <<"|">>) THEN table(ScanToTableEnd(lines, st.i))
        ELSE paragraph(ScanToParaEnd(lines, st.i + 1))
      \* lines 517-541: the images of the line, then the text around them
      images(scan) ==
        IF /\ Contains(line, <<"!", "[">>) /\ Contains(line, <<"]", "(">>)
           /\ scan.images # <<>>
        THEN [st EXCEPT !.i = st.i + 1,
                !.blocks = st.blocks \o ImageBlocks(scan.images)
                           \o (IF Strip(scan.rest) # <<>>
                               THEN <<_create_paragraph(Strip(scan.rest))>> ELSE <<>>)]
        ELSE others
  IN IF line = <<>> THEN [st EXCEPT !.i = st.i + 1]
     ELSE IF StartsWith(stripped_line, Fence) THEN FenceStep(lines, st, stripped_line)
     ELSE IF StartsWith(line, <<"#", " ">>) THEN one(_create_heading(Strip(From(line, 2)), 1))
     ELSE IF StartsWith(line, <<"#", "#", " ">>) THEN one(_create_heading(Strip(From(line, 3)), 2))
     ELSE IF StartsWith(line, <<"#", "#", "#", " ">>) THEN one(_create_heading(Strip(From(line,
         4)), 3))
     ELSE IF StartsWith(line, <<"#", "#", "#", "#", " ">>)
     THEN one(_create_heading(Strip(LStripSet(line, {"#"})), 3))
     ELSE IF /\ StartsWith(Strip(line), <<"$", "$">>) /\ EndsWith(Strip(line), <<"$", "$">>)
             /\ Len(Strip(line)) > 4
     THEN one(_create_equation_block(Strip(Slice(Strip(line), 2, Len(Strip(line)) - 2))))
     ELSE images(ImageScan(line))
RECURSIVE LexLoop(_, _, _)
LexLoop(lines, st, fuel) ==
  IF st.done THEN st
  ELSE IF fuel <= 1 THEN LexStep(lines, st)
  ELSE LET mid == LexLoop(lines, st, fuel \div 2)
       IN IF mid.done THEN mid ELSE LexLoop(lines, mid, fuel - (fuel \div 2))

_markdown_to_notion_blocks(markdown) ==
  LET lines == Split(markdown, <<"\n">>)
  IN LexLoop(lines,
             [i |-> 0, blocks |-> <<>>, done |-> FALSE], Len(lines) + 1).blocks

(***************************************************************************)
(* CleanContentParser._extract_educational_content.  The raw content is    *)
(* plain text: it holds no "<" and no "&", so that lines 145-148 leave it  *)
(* unchanged, and it is not a printed {'content': ...} dictionary.         *)
(***************************************************************************)
\* lines 122-134
blocked_indicators ==
  { <<"s", "e", "c", "u", "r", "i", "t", "y", "c", "o", "m", "p", "r", "o", "m", "i", "s", "e",
      "e", "r", "r", "o", "r">>, <<"a", "c", "c", "e", "s", "s", " ", "b", "l", "o", "c", "k", "e",
      "d">>, <<"d", "d", "o", "s", " ", "a", "t", "t", "a", "c", "k", " ", "s", "u", "s", "p", "e",
      "c", "t", "e", "d">>,
    <<"t", "o", "o", " ", "m", "a", "n", "y", " ", "r", "e", "q", "u", "e", "s", "t", "s">>, <<"c",
        "o", "d", "e", " ", "4", "5", "1">>, <<"a", "n", "o", "n", "y", "m", "o", "u", "s", " ",
        "a", "c", "c", "e", "s", "s", " ", "b", "l", "o", "c", "k", "e", "d">>, <<"c", "l", "o",
        "u", "d", "f", "l", "a", "r", "e">>,
    <<"y", "o", "u", " ", "h", "a", "v", "e", " ", "b", "e", "e", "n", " ", "b", "l", "o", "c",
        "k", "e", "d">>, <<"a", "c", "c", "e", "s", "s", " ", "d", "e", "n", "i", "e", "d">>,
        <<"r", "a", "t", "e", " ", "l", "i", "m", "i", "t", " ", "e", "x", "c", "e", "e", "d", "e",
        "d">>,
    <<"b", "o", "t", " ", "d", "e", "t", "e", "c", "t", "i", "o", "n">> }

\* line 142
BlockedMessage ==
  <<"W", "e", "b", "s", "i", "t", "e", " ", "b", "l", "o", "c", "k", "e", "d", " ", "a", "c", "c",
      "e", "s", "s", " ", "-", " ", "p", "o", "s", "s", "i", "b", "l", "e", " ", "b", "o", "t",
      " ", "d", "e", "t", "e", "c", "t", "i", "o", "n", ".", " ", "T", "r", "y", " ", "a", "g",
      "a", "i", "n", " ", "l", "a", "t", "e", "r", " ", "o", "r", " ", "u", "s", "e", " ", "a",
      " ", "d", "i", "f", "f", "e", "r", "e", "n", "t", " ", "m", "e", "t", "h", "o", "d", ".">>

\* lines 136-142: the content is taken for a blocked page
IsBlocked(content) ==
  LET content_lower == Lower(content)
      hits == {ind \in blocked_indicators : Contains(content_lower, ind)}
  IN /\ hits # {}
     /\ \/ 10 * Cardinality(hits) > 2 * Cardinality(blocked_indicators)
        \/ Len(content) < 500

\* a.{0,gap}b  occurs in t
GapMatch(t, a, gap, b) ==
  \E i \in Occurrences(t, a, 0) :
    \E j \in Occurrences(t, b, i + Len(a)) : j - (i + Len(a)) <= gap

\* line 161: corporate.{0,20}address|registered address|^\s*K\s+\d+|^A-\d+  (re.I),
\* searched in a stripped line
IsFooterLine(line) ==
  LET l == Lower(line)
      afterK == From(l, 1)
  IN \/ GapMatch(l, <<"c", "o", "r", "p", "o", "r", "a", "t", "e">>, 20, <<"a", "d", "d", "r", "e",
      "s", "s">>)
     \/ Contains(l, <<"r", "e", "g", "i", "s", "t", "e", "r", "e", "d", " ", "a", "d", "d", "r",
         "e", "s", "s">>)
     \/ /\ StartsWith(l, <<"k">>)
        /\ LStrip(afterK) # afterK
        /\ LStrip(afterK) # <<>>
        /\ Head(LStrip(afterK)) \in Digits
     \/ StartsWith(l, <<"a", "-">>) /\ Len(l) >= 3 /\ l[3] \in Digits

\* lines 32-44: the alternatives of skip_patterns that are plain words
skip_words ==
  { <<"s", "k", "i", "p", " ", "t", "o">>, <<"s", "i", "g", "n", " ", "i", "n">>, <<"l", "o", "g",
      " ", "i", "n">>, <<"r", "e", "g", "i", "s", "t", "e", "r">>, <<"s", "u", "b", "s", "c", "r",
      "i", "b", "e">>, <<"n", "e", "w", "s", "l", "e", "t", "t", "e", "r">>,
    <<"m", "e", "n", "u">>, <<"n", "a", "v", "i", "g", "a", "t", "i", "o", "n">>, <<"n", "a",
        "v">>, <<"f", "o", "o", "t", "e", "r">>, <<"h", "e", "a", "d", "e", "r">>, <<"s", "i", "d",
        "e", "b", "a", "r">>,
    <<"c", "o", "o", "k", "i", "e">>, <<"g", "d", "p", "r">>, <<"p", "r", "i", "v", "a", "c",
        "y">>, <<"t", "e", "r", "m", "s">>, <<"l", "e", "g", "a", "l">>, <<"c", "o", "p", "y", "r",
        "i", "g", "h", "t">>,
    <<"a", "d", "v", "e", "r", "t", "i", "s", "e", "m", "e", "n", "t">>, <<"s", "p", "o", "n", "s",
        "o", "r", "e", "d">>, <<"p", "r", "o", "m", "o">>, <<"m", "a", "r", "k", "e", "t", "i",
        "n", "g">>,
    <<"s", "h", "a", "r", "e">>, <<"l", "i", "k", "e">>, <<"c", "o", "m", "m", "e", "n", "t">>,
        <<"f", "o", "l", "l", "o", "w">>, <<"s", "o", "c", "i", "a", "l">>,
    <<"r", "e", "l", "a", "t", "e", "d", " ", "a", "r", "t", "i", "c", "l", "e", "s">>, <<"y", "o",
        "u", " ", "m", "i", "g", "h", "t", " ", "a", "l", "s", "o">>, <<"p", "o", "p", "u", "l",
        "a", "r", " ", "p", "o", "s", "t", "s">>,
    <<"t", "a", "b", "l", "e", " ", "o", "f", " ", "c", "o", "n", "t", "e", "n", "t", "s">>, <<"a",
        "l", "l", " ", "r", "i", "g", "h", "t", "s", " ", "r", "e", "s", "e", "r", "v", "e", "d">>,
        <<"b", "a", "c", "k", " ", "t", "o", " ", "t", "o", "p">>,
    <<"r", "e", "g", "i", "s", "t", "e", "r", "e", "d", " ", "a", "d", "d", "r", "e", "s", "s">>,
        <<"c", "o", "m", "m", "u", "n", "i", "c", "a", "t", "i", "o", "n", "s", " ", "a", "d", "d",
        "r", "e", "s", "s">>,
    <<"t", "o", "w", "e", "r">>, <<"s", "e", "c", "t", "o", "r">>, <<"a", "p", "a", "r", "t", "m",
        "e", "n", "t">>,
    <<"c", "o", "n", "t", "a", "c", "t", " ", "u", "s">>, <<"a", "d", "v", "e", "r", "t", "i", "s",
        "e", " ", "w", "i", "t", "h">>, <<"a", "b", "o", "u", "t", " ", "u", "s">>, <<"c", "a",
        "r", "e", "e", "r", "s">> }

\* line 170: any(pattern.search(line) for pattern in self.skip_patterns)
MatchesSkipPattern(line) ==
  LET l == Lower(line)
  IN \/ \E w \in skip_words : Contains(l, w)
     \/ GapMatch(l, <<"c", "o", "r", "p", "o", "r", "a", "t", "e">>, 20, <<"a", "d", "d", "r", "e",
         "s", "s">>)
     \/ GapMatch(l, <<"f", "l", "o", "o", "r">>, 30, <<"n", "o", "i", "d", "a">>)
     \/ GapMatch(l, <<"f", "l", "o", "o", "r">>, 30, <<"u", "t", "t", "a", "r", " ", "p", "r", "a",
         "d", "e", "s", "h">>)

\* lines 174-178: alpha_ratio > 0.4 for a line of more than 20 characters
IsSubstantial(line) ==
  /\ Len(line) > 20
  /\ 10 * Cardinality({i \in 1..Len(line) : IsAlpha(line[i])}) > 4 * Len(line)

\* lines 155-178: one line of the content
FilterStep(lines, st) ==
  IF st.k > Len(lines) THEN [st EXCEPT !.done = TRUE]
  ELSE LET line == Strip(lines[st.k])
       IN IF Len(line) < 10 THEN [st EXCEPT !.k = st.k + 1]
          ELSE IF IsFooterLine(line) THEN [st EXCEPT !.done = TRUE]
          ELSE IF MatchesSkipPattern(line) THEN [st EXCEPT !.k = st.k + 1]
          ELSE IF IsSubstantial(line)
          THEN [st EXCEPT !.k = st.k + 1,
                  !.educational_lines = Append(st.educational_lines, line)]
          ELSE [st EXCEPT !.k = st.k + 1]
RECURSIVE FilterLoop(_, _, _)
FilterLoop(lines, st, fuel) ==
  IF st.done THEN st
  ELSE IF fuel <= 1 THEN FilterStep(lines, st)
  ELSE LET mid == FilterLoop(lines, st, fuel \div 2)
       IN IF mid.done THEN mid ELSE FilterLoop(lines, mid, fuel - (fuel \div 2))

\* The kept lines are stripped and not empty, so the join holds no blank
\* line and the substitution of line 182 changes nothing.
_extract_educational_content(raw_content) ==
  LET lines == Split(raw_content, <<"\n">>)
      st == FilterLoop(lines,
                    [k |-> 1, educational_lines |-> <<>>, done |-> FALSE], Len(lines) + 1)
  IN IF IsBlocked(raw_content)
     THEN [raised |-> TRUE, message |-> BlockedMessage, clean_content |-> <<>>]
     ELSE [raised |-> FALSE, message |-> <<>>,
           clean_content |-> Strip(Join(st.educational_lines, <<"\n">>))]

(***************************************************************************)
(* The two structuring routines and the entry point                        *)
(***************************************************************************)
\* lines 701-715: the block of one paragraph of the manual routine
ManualBlock(para) ==
  IF Len(para) < 100 /\ ~EndsWith(para, <<".">>) THEN _create_heading(para, 2)
  ELSE IF Head(para) \in {"-", Bullet, "*"} THEN _create_bullet(Strip(From(para, 1)))
  ELSE _create_paragraph(para)

_manual_structure_for_notion(clean_content, title, url) ==
  LET split == Split(clean_content, <<"\n", "\n">>)
      paragraphs == SelectSeq([k \in 1..Len(split) |-> Strip(split[k])],
                              LAMBDA para : para # <<>>)
  IN (IF title # <<>> THEN <<_create_heading(title, 1)>> ELSE <<>>)
     \o (IF url # <<>> THEN <<_create_paragraph(<<"S", "o", "u", "r", "c", "e", ":",
         " ">> \o url)>> ELSE <<>>)
     \o [k \in 1..Len(paragraphs) |-> ManualBlock(paragraphs[k])]

\* lines 380-392: the markdown returned by the model, unwrapped and lexed
_ai_structure_for_notion(response_text) ==
  LET m0 == Strip(response_text)
      m1 == IF StartsWith(m0, Fence \o <<"m", "a", "r", "k", "d", "o", "w", "n">>) THEN From(m0,
          11) ELSE m0
      m2 == IF StartsWith(m1, Fence) THEN From(m1, 3) ELSE m1
      m3 == IF EndsWith(m2, Fence) THEN Slice(m2, 0, Len(m2) - 3) ELSE m2
  IN _markdown_to_notion_blocks(Strip(m3))

\* the error sequence without its closing advice
ErrorBlocksWithoutAdvice(error_message) ==
  << _create_heading(<<WarningSign, VariationSelector16>> \o <<" ", "C", "o", "n", "t", "e", "n",
      "t", " ", "E", "x", "t", "r", "a", "c", "t", "i", "o", "n", " ", "E", "r", "r", "o", "r">>,
      1),
     _create_paragraph(error_message) >>

_create_error_blocks(error_message) ==
  << _create_heading(<<WarningSign, VariationSelector16>> \o <<" ", "C", "o", "n", "t", "e", "n",
      "t", " ", "E", "x", "t", "r", "a", "c", "t", "i", "o", "n", " ", "E", "r", "r", "o", "r">>,
      1),
     _create_paragraph(error_message),
     _create_paragraph(
       <<"T", "r", "y", " ", "o", "p", "e", "n", "i", "n", "g", " ", "t", "h", "e", " ", "p", "a",
           "g", "e", " ", "d", "i", "r", "e", "c", "t", "l", "y", " ", "o", "r", " ", "c", "h",
           "e", "c", "k", " ", "i", "f", " ", "i", "t", " ", "c", "o", "n", "t", "a", "i", "n",
           "s", " ", "e", "d", "u", "c", "a", "t", "i", "o", "n", "a", "l", " ", "c", "o", "n",
           "t", "e", "n", "t", ".">>) >>

\* The outcomes of the call to the model: it raises, or it answers a text.
AIRaises == [kind |-> "raises", text |-> <<>>, blocks |-> <<>>]
AIAnswers(text) ==
  [kind |-> "text", text |-> text, blocks |-> _ai_structure_for_notion(text)]

\* the entry point without the manual fallback: a failure of the call to the
\* model is raised and an empty answer is returned as it is
ParseWithoutFallback(raw_content, title, url, use_ai, has_model, ai) ==
  LET try_ai == use_ai /\ has_model
      structure(extracted, clean_content) ==
     IF extracted.raised
     THEN [raised |-> TRUE, message |-> extracted.message, blocks |-> <<>>,
           ran |-> {}, clean_content |-> <<>>]
     ELSE IF clean_content = <<>> \/ Strip(clean_content) = <<>>
     THEN [raised |-> FALSE, message |-> <<>>,
           blocks |-> _create_error_blocks(<<"N", "o", " ", "e", "d", "u", "c", "a", "t", "i", "o",
               "n", "a", "l", " ", "c", "o", "n", "t", "e", "n", "t", " ", "f", "o", "u", "n", "d",
               " ", "o", "n", " ", "t", "h", "i", "s", " ", "p", "a", "g", "e">>),
           ran |-> {}, clean_content |-> clean_content]
     ELSE IF try_ai
     THEN [raised |-> (ai.kind = "raises"), message |-> <<>>, blocks |-> ai.blocks,
           ran |-> {"ai"}, clean_content |-> clean_content]
     ELSE [raised |-> FALSE, message |-> <<>>,
           blocks |-> _manual_structure_for_notion(clean_content, title, url),
           ran |-> {"manual"}, clean_content |-> clean_content]
      extract(extracted) == structure(extracted, extracted.clean_content)
  IN extract(_extract_educational_content(raw_content))

\* has_model: self.model is set; ai: what the call to the model does when it
\* is made.  ran records the structuring routines that were run.
parse_and_format_for_notion(raw_content, title, url, use_ai, has_model, ai) ==
  LET try_ai == use_ai /\ has_model
      notion_blocks == IF ai.kind = "text" THEN ai.blocks ELSE <<>>
      structure(extracted, clean_content) ==
     IF extracted.raised
     THEN [raised |-> TRUE, message |-> extracted.message, blocks |-> <<>>,
           ran |-> {}, clean_content |-> <<>>]
     ELSE IF clean_content = <<>> \/ Strip(clean_content) = <<>>
     THEN [raised |-> FALSE, message |-> <<>>,
           blocks |-> _create_error_blocks(<<"N", "o", " ", "e", "d", "u", "c", "a", "t", "i", "o",
               "n", "a", "l", " ", "c", "o", "n", "t", "e", "n", "t", " ", "f", "o", "u", "n", "d",
               " ", "o", "n", " ", "t", "h", "i", "s", " ", "p", "a", "g", "e">>),
           ran |-> {}, clean_content |-> clean_content]
     ELSE IF try_ai /\ ai.kind = "text" /\ notion_blocks # <<>>
     THEN [raised |-> FALSE, message |-> <<>>, blocks |-> notion_blocks,
           ran |-> {"ai"}, clean_content |-> clean_content]
     ELSE [raised |-> FALSE, message |-> <<>>,
           blocks |-> _manual_structure_for_notion(clean_content, title, url),
           ran |-> (IF try_ai THEN {"ai", "manual"} ELSE {"manual"}),
           clean_content |-> clean_content]
      extract(extracted) == structure(extracted, extracted.clean_content)
  IN extract(_extract_educational_content(raw_content))

(***************************************************************************)
(* NotionService._consolidate_blocks and _prepare_page_content             *)
(***************************************************************************)
\* the text of the first span of a block of any type
FirstTextOfAnyBlock(block) ==
  IF "rich_text" \in DOMAIN block /\ block.rich_text # <<>>
     /\ "content" \in DOMAIN block.rich_text[1]
  THEN block.rich_text[1].content ELSE <<>>

\* lines 782-785: the text a block gives to the consolidation
ConsolidatedText(block) ==
  IF block.type = "paragraph" /\ block.rich_text # <<>>
     /\ "content" \in DOMAIN block.rich_text[1]
  THEN block.rich_text[1].content ELSE <<>>

\* lines 803-824: one paragraph of the combined text
ConsolidateStep(paragraphs, chunk_size, blocks_needed, st) ==
  IF st.k > Len(paragraphs) THEN [st EXCEPT !.done = TRUE]
  ELSE LET paragraph == paragraphs[st.k]
           test_chunk == Glue(st.current_chunk, <<"\n", "\n">>, paragraph)
       IN IF /\ Len(test_chunk) <= chunk_size
             /\ Len(st.consolidated_blocks) < blocks_needed - 1
          THEN [st EXCEPT !.k = st.k + 1, !.current_chunk = test_chunk]
          ELSE [st EXCEPT !.k = st.k + 1,
                  !.consolidated_blocks =
                     IF st.current_chunk # <<>>
                     THEN Append(st.consolidated_blocks,
                                 ParagraphOf(<<PlainSpan(st.current_chunk)>>))
                     ELSE st.consolidated_blocks,
                  !.current_chunk = paragraph]
RECURSIVE ConsolidateLoop(_, _, _, _, _)
ConsolidateLoop(paragraphs, chunk_size, blocks_needed, st, fuel) ==
  IF st.done THEN st
  ELSE IF fuel <= 1 THEN ConsolidateStep(paragraphs, chunk_size, blocks_needed, st)
  ELSE LET mid == ConsolidateLoop(paragraphs, chunk_size, blocks_needed, st, fuel \div 2)
       IN IF mid.done THEN mid ELSE ConsolidateLoop(paragraphs, chunk_size, blocks_needed, mid, fuel - (fuel \div 2))

_consolidate_blocks(blocks, max_blocks) ==
  LET texts == [k \in 1..Len(blocks) |-> ConsolidatedText(blocks[k])]
      all_text == SelectSeq(texts, LAMBDA t : t # <<>>)
      blocks_needed == Min2(max_blocks, Len(blocks))
      \* lines 826-835
      flush(st) == st.consolidated_blocks
                   \o (IF st.current_chunk # <<>>
                       THEN <<ParagraphOf(<<PlainSpan(st.current_chunk)>>)>> ELSE <<>>)
      \* lines 803-824
      pack(paragraphs, chunk_size) ==
        flush(ConsolidateLoop(paragraphs, chunk_size, blocks_needed,
                    [k |-> 1, consolidated_blocks |-> <<>>, current_chunk |-> <<>>,
                     done |-> FALSE],
                    Len(paragraphs) + 1))
      split(combined_text) ==
        pack(Split(combined_text, <<"\n", "\n">>),
             Min2(Len(combined_text) \div blocks_needed, 1900))
  IN IF Len(blocks) <= max_blocks THEN blocks
     ELSE split(Join(all_text, <<"\n", "\n">>))

\* lines 437-494 for a generic content, which is its own raw content; the
\* result holds what the parser did and the blocks that are returned
_prepare_page_content(content, title, url, has_model, ai) ==
  LET raw_content == content
      \* lines 486-492
      limit(parsed, blocks) ==
        [parsed |-> parsed,
         blocks |-> IF Len(blocks) > 100 THEN _consolidate_blocks(blocks, 100) ELSE blocks]
      \* lines 472-484: the fallback block of a page without blocks
      fallback(parsed, made) ==
        limit(parsed,
              IF made = <<>>
              THEN <<ParagraphOf(<<PlainSpan(<<"C", "o", "n", "t", "e", "n", "t", ":", " ">>
                        \o Or(Slice(raw_content, 0, 1000), <<"N", "o", " ", "c", "o", "n", "t",
                            "e", "n", "t", " ", "a", "v", "a", "i", "l", "a", "b", "l",
                            "e">>))>>)>>
              ELSE made)
      \* lines 455-470: the parser's blocks, or the block of its error
      structured(parsed) ==
        fallback(parsed,
                 IF parsed.raised
                 THEN <<ParagraphOf(<<PlainSpan(<<"E", "r", "r", "o", "r", " ", "p", "a", "r", "s",
                     "i", "n", "g", " ", "c", "o", "n", "t", "e", "n", "t", ":",
                     " ">> \o parsed.message)>>)>>
                 ELSE parsed.blocks)
  IN structured(parse_and_format_for_notion(raw_content, title, url, TRUE, has_model, ai))

(***************************************************************************)
(* Inputs                                                                  *)
(***************************************************************************)
\* unit repeated n times
Repeat(unit, n) ==
  <<>> \o [i \in 1..(n * Len(unit)) |-> unit[((i - 1) % Len(unit)) + 1]]

\* the concatenations of at most n tokens
RECURSIVE TokenTexts(_, _)
TokenTexts(tokens, n) ==
  IF n = 0 THEN {<<>>}
  ELSE LET shorter == TokenTexts(tokens, n - 1)
       IN shorter \cup {t \o tok : t \in shorter, tok \in tokens}

Titles == {<<>>, <<"I", "n", "t", "r", "o">>}
Urls == {<<>>, <<"h", "t", "t", "p", ":", "/", "/", "e", "x", "a", "m", "p", "l", "e", ".", "c",
    "o", "m">>}

\* a sentence that the extraction keeps, and a line without a final period
PlainSentence == <<"P", "h", "o", "t", "o", "s", "y", "n", "t", "h", "e", "s", "i", "s", " ", "c",
    "o", "n", "v", "e", "r", "t", "s", " ", "l", "i", "g", "h", "t", " ", "i", "n", "t", "o", " ",
    "c", "h", "e", "m", "i", "c", "a", "l", " ", "e", "n", "e", "r", "g", "y", ".">>
PlainLine == <<"P", "l", "a", "n", "t", "s", " ", "m", "a", "k", "e", " ", "s", "u", "g", "a", "r",
    " ", "f", "r", "o", "m", " ", "s", "u", "n", "l", "i", "g", "h", "t", " ", "a", "n", "d", " ",
    "w", "a", "t", "e", "r">>

RawContents ==
  { <<>>, <<"h", "e", "l", "l", "o">>, PlainSentence, PlainLine,
    PlainLine \o <<"\n">> \o PlainSentence,
    <<"S", "i", "g", "n", " ", "i", "n", " ", "t", "o", " ", "c", "o", "n", "t", "i", "n", "u",
        "e", " ", "r", "e", "a", "d", "i", "n", "g", " ", "t", "h", "i", "s", " ", "a", "r", "t",
        "i", "c", "l", "e">>,
    <<"A", "c", "c", "e", "s", "s", " ", "d", "e", "n", "i", "e", "d", " ", "b", "y", " ", "C",
        "l", "o", "u", "d", "f", "l", "a", "r", "e">>,
    <<"P", "l", "e", "a", "s", "e", " ", "w", "a", "i", "t", ":", " ", "b", "o", "t", " ", "d",
        "e", "t", "e", "c", "t", "i", "o", "n", " ", "i", "s", " ", "c", "h", "e", "c", "k", "i",
        "n", "g", " ", "y", "o", "u", "r", " ", "b", "r", "o", "w", "s", "e", "r", " ", "a", "n",
        "d", " ", "c", "o", "n", "n", "e", "c", "t", "i", "o", "n", ".">>,
    <<"*", " ", "P", "l", "a", "n", "t", "s", " ", "n", "e", "e", "d", " ", "l", "i", "g", "h",
        "t", " ", "a", "n", "d", " ", "w", "a", "t", "e", "r", " ", "a", "n", "d", " ", "a", "i",
        "r", " ", "t", "o", " ", "g", "r", "o", "w", ".">>,
    Rep("a", 20), Rep("a", 99), Rep("a", 100) }

DocUnits == {<<"a", "\n", "\n">>, <<"-", " ", "a", "\n">>, <<"#", " ", "a", "\n">>}
DocSizes == (0..2) \cup ((MaxDocUnits - 2)..MaxDocUnits)

\* markdown answers of the model
AITexts ==
  {Repeat(unit, n) : unit \in DocUnits, n \in DocSizes}
  \cup { <<"#", " ", "E", "n", "e", "r", "g", "y", "\n", "\n", "P", "l", "a", "n", "t", "s", " ",
      "s", "t", "o", "r", "e", " ", "e", "n", "e", "r", "g", "y", ".", "\n", "T", "h", "e", "y",
      " ", "u", "s", "e", " ", "l", "i", "g", "h", "t", ".", "\n", "\n", "-", " ", "o", "n", "e",
      "\n", "*", " ", "t", "w", "o", "\n", "1", ".", " ", "t", "h", "r", "e", "e">>,
         Fence \o <<"m", "a", "r", "k", "d", "o", "w", "n", "\n", "#", " ", "E", "n", "e", "r",
             "g", "y", "\n", "\n", "t", "e", "x", "t", "\n">> \o Fence,
         Fence \o <<"p", "y", "\n", "p", "r", "i", "n", "t", "(", "1", ")",
             "\n">> \o Fence \o <<"\n", "$", "$", "E", " ", "=", " ", "m", "c", "^", "2", "$", "$",
             "\n", "|", " ", "a", " ", "|", " ", "b", " ", "|", "\n", "|", "-", "-", "-", "|", "-",
             "-", "-", "|", "\n", "|", " ", "1", " ", "|", " ", "2", " ", "|">>,
         <<"*", "*", "s", "p", "e", "e", "d", " ", "i", "s", " ", "$", "$", "v", " ", "=", " ",
             "d", "/", "t", "$", "$", " ", "a", "l", "w", "a", "y", "s", "*", "*">>,
         <<"!", "[", "d", "i", "a", "g", "r", "a", "m", "]", "(", "h", "t", "t", "p", "s", ":",
             "/", "/", "e", "x", "a", "m", "p", "l", "e", ".", "c", "o", "m", "/", "l", "e", "a",
             "f", " ", "c", "e", "l", "l", ".", "p", "n", "g", ")", " ", "s", "e", "e", "n", " ",
             "a", "b", "o", "v", "e">>,
         <<"!", "[">> \o Rep("a", LongTextLen) \o <<"]", "(", "h", "t", "t", "p", ":", "/", "/",
             "l", "o", "c", "a", "l", "h", "o", "s", "t", "/", "x", ".", "p", "n", "g", ")">>,
         Rep("a", LongTextLen),
         Repeat(<<"a", "\n", "\n">>, MaxDocUnits - 41) \o Rep("b", 600) \o <<"\n", "\n">>
           \o Repeat(<<"-", " ", "c", "\n">>, 50),
         Repeat(<<"a", "\n", "\n">>, MaxDocUnits - 2)
           \o <<"b", " ", "*", "*", "c", "*", "*", " ", "d", "\n", "\n", "#", " ", "h", "\n", "-", " ", "e", "\n">> }

AIOutcomes == {AIRaises} \cup {AIAnswers(t) : t \in AITexts}

\* what stands for the outcome of a call to the model that is never made
AINotCalled == [kind |-> "none", text |-> <<>>, blocks |-> <<>>]

(***************************************************************************)
(* Spec: a NotionService prepares the content of one page                  *)
(***************************************************************************)
NoCall == [pc |-> "none"]

Init ==
  /\ model \in BOOLEAN
  /\ call = [pc |-> "start"]
  /\ fmt = NoCall
  /\ spl = NoCall
  /\ lex = NoCall
  /\ brk = NoCall
  /\ par = NoCall
  /\ req = NoCall

PreparePageContent ==
  /\ call.pc = "start"
  /\ \E content \in RawContents, title \in Titles, url \in Urls,
        ai \in (IF model THEN AIOutcomes ELSE {AINotCalled}) :
       LET returned(r) == [pc |-> "done", content |-> content, title |-> title,
                           url |-> url, ai |-> ai, parsed |-> r.parsed, blocks |-> r.blocks]
       IN call' = returned(_prepare_page_content(content, title, url, model, ai))
  /\ UNCHANGED <<model, fmt, spl, lex, brk, par, req>>

\* the children of the page, without the cut to 100 blocks
PageChildrenUncut(children_blocks) == children_blocks

\* save_content lines 236-245: the children of the page that is created
PageChildren(children_blocks) ==
  IF Len(children_blocks) > 100 THEN Slice(children_blocks, 0, 100) ELSE children_blocks

\* save_content lines 236-252: the request that creates the page
PagesCreate ==
  /\ call.pc = "done"
  /\ call' = [children |-> PageChildren(call.blocks)] @@ [call EXCEPT !.pc = "created"]
  /\ UNCHANGED <<model, fmt, spl, lex, brk, par, req>>

Next == PreparePageContent \/ PagesCreate

Spec == Init /\ [][Next]_vars

(***************************************************************************)
(* SpecInline: _parse_inline_formatting applied to one text                *)
(***************************************************************************)
InlineTokens == {<<"a">>, <<" ">>, <<"*">>, <<"*", "*">>, <<"$", "$">>, <<Backquote>>}

\* a bold or italic run that holds an equation: mark x $$e$$ y mark
Marks == {<<"*", "*">>, <<"*">>}
Affixes == {<<>>, <<"a">>, <<"s", "p", "e", "e", "d", " ", "i", "s", " ">>, <<" ", "a", "l", "w",
    "a", "y", "s">>}
Expressions == {<<"x">>, <<"v", " ", "=", " ", "d", "/", "t">>}
StyledRun(mark, x, e, y) == mark \o x \o <<"$", "$">> \o e \o <<"$", "$">> \o y \o mark

\* texts with a run between two pairs of tildes
StruckTexts == { <<"~", "~", "x", "~", "~">>, <<"a", " ", "~", "~", "x", "~", "~", " ", "b">>,
    <<"*", "*", "b", "*", "*", " ", "~", "~", "x", "~", "~">>, <<"~", "~", "x", "~", "~", " ", "$",
    "$", "e", "$", "$">> }

InlineTexts ==
  TokenTexts(InlineTokens, MaxInlineTokens) \cup StruckTexts
  \cup {StyledRun(mark, x, e, y) : mark \in Marks, x \in Affixes, e \in Expressions,
                                   y \in Affixes}

InitInline ==
  /\ model = FALSE
  /\ call = NoCall
  /\ fmt \in {[pc |-> "start", text |-> t] : t \in InlineTexts}
  /\ spl = NoCall
  /\ lex = NoCall
  /\ brk = NoCall
  /\ par = NoCall
  /\ req = NoCall

ParseInlineFormatting ==
  /\ fmt.pc = "start"
  /\ fmt' = [pc |-> "done", text |-> fmt.text, parts |-> _parse_inline_formatting(fmt.text)]
  /\ UNCHANGED <<model, call, spl, lex, brk, par, req>>

NextInline == ParseInlineFormatting

SpecInline == InitInline /\ [][NextInline]_vars

(***************************************************************************)
(* SpecSplit: _split_long_content applied to one content                   *)
(***************************************************************************)
SplitTokens == {<<"a">>, <<" ">>, <<".", " ">>, <<"\n", "\n">>}

\* n paragraphs of len characters
Paragraphs(n, len) == Join([k \in 1..n |-> Rep("a", len)], <<"\n", "\n">>)

SplitContents ==
  TokenTexts(SplitTokens, MaxSplitTokens)
  \cup {Paragraphs(n, len) : n \in 1..MaxSplitParagraphs, len \in {900, 1500, LongTextLen}}

MaxLengths == {2, 4, 1000, 2000}
MaxBlocks == {1, 2, 100}

InitSplit ==
  /\ model = FALSE
  /\ call = NoCall
  /\ fmt = NoCall
  /\ spl \in {[pc |-> "start", content |-> c, max_length |-> l, max_blocks |-> b] :
                c \in SplitContents, l \in MaxLengths, b \in MaxBlocks}
  /\ lex = NoCall
  /\ brk = NoCall
  /\ par = NoCall
  /\ req = NoCall

SplitLongContent ==
  /\ spl.pc = "start"
  /\ spl' = [pc |-> "done", content |-> spl.content, max_length |-> spl.max_length,
             max_blocks |-> spl.max_blocks,
             blocks |-> _split_long_content(spl.content, spl.max_length, spl.max_blocks)]
  /\ UNCHANGED <<model, call, fmt, lex, brk, par, req>>

NextSplit == SplitLongContent

SpecSplit == InitSplit /\ [][NextSplit]_vars

(***************************************************************************)
(* Properties                                                              *)
(***************************************************************************)
\* the texts of the spans of a rich text
SpanTexts(rich_text) ==
  {IF rich_text[k].type = "equation" THEN rich_text[k].expression ELSE rich_text[k].content :
     k \in 1..Len(rich_text)}

\* the text-bearing fields of a block
BlockTexts(block) ==
  IF block.type = "equation" THEN {block.expression}
  ELSE IF block.type = "image"
  THEN (IF "caption" \in DOMAIN block THEN SpanTexts(block.caption) ELSE {})
  ELSE IF block.type = "table"
  THEN UNION {SpanTexts(block.children[r][c]) :
                r \in 1..Len(block.children), c \in 1..block.table_width}
  ELSE SpanTexts(block.rich_text)

\* C1: for every input and every outcome of the AI call, the block list
\* returned by the assembly path (parse_and_format_for_notion followed by the
\* consolidation of _prepare_page_content) has at most 100 blocks.
C1_AtMost100Blocks ==
  call.pc = "done" => Len(call.blocks) <= 100

\* C2: every text-bearing field of every block of the assembled output (span
\* content, equation expression, code text, image caption, placeholder
\* paragraph text, table cell text) has at most 2000 characters.
C2_FieldsAtMost2000 ==
  call.pc = "done" =>
    \A k \in 1..Len(call.blocks) : \A t \in BlockTexts(call.blocks[k]) : Len(t) <= 2000

\* C3: the assembly never returns an empty block list, also when more than
\* 100 blocks are consolidated and when structuring fails.
C3_NeverEmpty ==
  call.pc = "done" => Len(call.blocks) >= 1

\* C4: no exception escapes parse_and_format_for_notion, whatever the raw
\* content (blocked pages included) and whatever the AI call does.
C4_NeverRaises ==
  call.pc = "done" => ~call.parsed.raised

\* C5: when the cleaned text is not empty and the AI call raises or yields
\* no block, the output is that of the manual routine on the same cleaned
\* text, title and url and nothing is raised; when the AI path yields a
\* block, exactly its blocks are returned and the manual routine is not run.
C5_FallbackToManual ==
  (call.pc = "done" /\ model /\ ~_extract_educational_content(call.content).raised
     /\ _extract_educational_content(call.content).clean_content # <<>>) =>
    LET clean_content == _extract_educational_content(call.content).clean_content
        ai_blocks == IF call.ai.kind = "text" THEN call.ai.blocks ELSE <<>>
    IN /\ ~call.parsed.raised
       /\ IF call.ai.kind = "raises" \/ ai_blocks = <<>>
          THEN /\ call.parsed.blocks
                    = _manual_structure_for_notion(clean_content, call.title, call.url)
               /\ "manual" \in call.parsed.ran
          ELSE /\ call.parsed.blocks = ai_blocks
               /\ "manual" \notin call.parsed.ran

\* C5 witness: the AI call raised on a cleaned text that is not empty and
\* the manual routine gave the blocks.
C5_Witness ==
  /\ call.pc = "done" /\ model /\ call.ai.kind = "raises"
  /\ call.parsed.clean_content # <<>>
  /\ call.parsed.ran = {"ai", "manual"}
  /\ Len(call.parsed.blocks) >= 1

\* C6 (as amended): when the cleaned text is empty, the output is exactly
\* the fixed error sequence of three blocks, one heading followed by two
\* explanatory paragraphs, and neither the AI call nor the manual routine runs.
C6_ErrorSequenceOfThree ==
  (call.pc = "done" /\ ~call.parsed.raised /\ call.parsed.clean_content = <<>>) =>
    /\ call.parsed.blocks
         = _create_error_blocks(<<"N", "o", " ", "e", "d", "u", "c", "a", "t", "i", "o", "n", "a",
             "l", " ", "c", "o", "n", "t", "e", "n", "t", " ", "f", "o", "u", "n", "d", " ", "o",
             "n", " ", "t", "h", "i", "s", " ", "p", "a", "g", "e">>)
    /\ Len(call.parsed.blocks) = 3
    /\ call.parsed.blocks[1].type = "heading_1"
    /\ call.parsed.blocks[2].type = "paragraph"
    /\ call.parsed.blocks[3].type = "paragraph"
    /\ call.parsed.ran = {}
    /\ call.blocks = call.parsed.blocks

\* C6 witness: title "Intro", url "http://example.com" and an empty raw
\* content gave the error sequence.
C6_Witness ==
  /\ call.pc = "done" /\ call.content = <<>>
  /\ call.title = <<"I", "n", "t", "r", "o">> /\ call.url = <<"h", "t", "t", "p", ":", "/", "/",
      "e", "x", "a", "m", "p", "l", "e", ".", "c", "o", "m">>
  /\ call.parsed.clean_content = <<>> /\ Len(call.parsed.blocks) = 3

\* C6 as stated: when the cleaned text is empty, the output is exactly two
\* blocks, one heading followed by one explanatory paragraph, and neither
\* the AI call nor the manual routine runs.
C6_ErrorSequenceOfTwo ==
  (call.pc = "done" /\ ~call.parsed.raised /\ call.parsed.clean_content = <<>>) =>
    /\ Len(call.parsed.blocks) = 2
    /\ call.parsed.blocks[1].type = "heading_1"
    /\ call.parsed.blocks[2].type = "paragraph"
    /\ call.parsed.ran = {}

\* the characters of markdown markers
MarkerChars == {"#", "*", Backquote, "|", "$", "!", "[", "]", "-", "_", "~", Bullet}
\* a plain text: no marker character and no digit, so no fence, heading, list
\* marker, table, image, math or inline marker
MarkerFree(t) == \A i \in 1..Len(t) : t[i] \notin MarkerChars /\ t[i] \notin Digits

\* C7: for every non-empty plain text without markdown markers, the output
\* holds only paragraph and heading blocks and nothing is raised (the blocks
\* that an answer of the AI gave are not counted against the claim).
C7_PlainTextGivesParagraphsAndHeadings ==
  (call.pc = "done" /\ call.content # <<>> /\ MarkerFree(call.content)
     /\ call.parsed.ran # {"ai"}) =>
    /\ ~call.parsed.raised
    /\ \A k \in 1..Len(call.parsed.blocks) :
         call.parsed.blocks[k].type \in {"paragraph", "heading_1", "heading_2", "heading_3"}

(***************************************************************************)
(* Properties of the inline formatter (SpecInline)                         *)
(***************************************************************************)
\* the spans of a styled run around its equation
Styled(mark, c) == AnnotatedSpan(c, mark = <<"*", "*">>, mark = <<"*">>, FALSE)
ExpectedRun(mark, x, e, y) ==
  (IF x # <<>> THEN <<Styled(mark, x)>> ELSE <<>>)
  \o <<EquationSpan(e)>>
  \o (IF y # <<>> THEN <<Styled(mark, y)>> ELSE <<>>)

\* C8: the inline formatter never emits an equation span that carries bold,
\* italic or code; a bold or italic run that holds $$...$$ is emitted as
\* styled text spans around plain equation spans in source order, and
\* **speed is $$v = d/t$$ always** gives
\* [Bold("speed is "), Equation("v = d/t"), Bold(" always")].
C8_EquationsCarryNoStyle ==
  fmt.pc = "done" =>
    /\ \A k \in 1..Len(fmt.parts) :
         fmt.parts[k].type = "equation" => "annotations" \notin DOMAIN fmt.parts[k]
    /\ \A mark \in Marks, x \in Affixes, e \in Expressions, y \in Affixes :
         fmt.text = StyledRun(mark, x, e, y) => fmt.parts = ExpectedRun(mark, x, e, y)
    /\ fmt.text = <<"*", "*", "s", "p", "e", "e", "d", " ", "i", "s", " ", "$", "$", "v", " ", "=",
        " ", "d", "/", "t", "$", "$", " ", "a", "l", "w", "a", "y", "s", "*", "*">> =>
         fmt.parts = << AnnotatedSpan(<<"s", "p", "e", "e", "d", " ", "i", "s", " ">>, TRUE, FALSE,
             FALSE),
                        EquationSpan(<<"v", " ", "=", " ", "d", "/", "t">>),
                        AnnotatedSpan(<<" ", "a", "l", "w", "a", "y", "s">>, TRUE, FALSE, FALSE) >>

\* C8 witness: the example was formatted and gave an equation span between
\* two bold spans.
C8_Witness ==
  /\ fmt.pc = "done"
  /\ fmt.text = <<"*", "*", "s", "p", "e", "e", "d", " ", "i", "s", " ", "$", "$", "v", " ", "=",
      " ", "d", "/", "t", "$", "$", " ", "a", "l", "w", "a", "y", "s", "*", "*">>
  /\ Len(fmt.parts) = 3
  /\ fmt.parts[2].type = "equation"

(***************************************************************************)
(* Properties of the splitter (SpecSplit)                                  *)
(***************************************************************************)
BlockText(block) == block.rich_text[1].content

\* C9: for every text, max_length and max_blocks, every block returned by
\* the splitter has a text of at most max_length characters.
C9_BlocksFitMaxLength ==
  spl.pc = "done" =>
    \A k \in 1..Len(spl.blocks) : Len(BlockText(spl.blocks[k])) <= spl.max_length

\* C10: a text of at most max_length characters gives exactly one paragraph
\* block whose text is the input; consequently splitting again the text of
\* any returned block gives that same single block.
C10_ShortTextIsOneBlockAndResplitIsStable ==
  spl.pc = "done" =>
    /\ Len(spl.content) <= spl.max_length =>
         spl.blocks = <<ParagraphOf(<<PlainSpan(spl.content)>>)>>
    /\ \A k \in 1..Len(spl.blocks) :
         _split_long_content(BlockText(spl.blocks[k]), spl.max_length, spl.max_blocks)
           = <<spl.blocks[k]>>

\* C18: for every text and every max_blocks, _split_long_content returns at
\* most max_blocks blocks: chunks are packed, and the content is cut as a
\* last resort, until the count is within the budget.
C18_AtMostMaxBlocks ==
  spl.pc = "done" => Len(spl.blocks) <= spl.max_blocks

(***************************************************************************)
(* SpecLex: _markdown_to_notion_blocks applied to one markdown text, and   *)
(* _create_code_block applied to one language hint                         *)
(***************************************************************************)
\* most lines of a markdown text given to the lexer
MaxLexLines == 3
\* most lines of a table given to the lexer
MaxTableLines == 3

FenceLines ==
  { Fence, Fence \o <<"j", "s", "x">>, Fence \o <<"p", "y", "t", "h", "o", "n">>,
    Fence \o <<"p", "y", "t", "h", "o", "n", " ", "p", "r", "i", "n", "t", "(", "'", "h", "i", "'",
        ")">> \o Fence, Fence \o <<"j", "s", " ", "a", " ", "b">> \o Fence \o <<" ", "c">>,
    Fence \o <<"p", "y", " ", "x", " ", "=", " ", "1">>, <<" ", " ">> \o Fence, <<"x",
        " ">> \o Fence }
TableLines ==
  { <<"|", " ", "a", " ", "|", " ", "b", " ", "|">>, <<"|", "-", "-", "-", "|", "-", "-", "-",
      "|">>, <<"|", " ", "1", " ", "|", " ", "2", " ", "|">>, <<"|", " ", "1", " ", "|">>, <<"|",
      " ", "1", " ", "|", " ", "2", " ", "|", " ", "3", " ", "|">>, <<"|">>,
    <<"|", " ", "a", " ", "|", " ", " ", "|", " ", "c", " ", "|">> }
LexLines == FenceLines \cup { <<>>, <<"f", "u", "n", "c", "t", "i", "o", "n", " ", "f", "(", ")",
    "{", "}">>, <<"|", " ", "a", " ", "|", " ", "b", " ", "|">> }

\* most lines of a text that begins with a paragraph
MaxParaLines == 3
\* lines that begin, continue or end a paragraph, and lines of each construct
PlainLines == { <<"a", "b">>, <<"c", " ", "d">> }
ParaLines ==
  PlainLines
  \cup { <<>>, <<" ", " ">>, <<"#", " ", "h">>, <<"#", "#", "#", "#", " ", "h">>, <<"#", "#", "#",
      "#", "#", " ", "h">>, <<"$", "$", "x", "^", "2", "$", "$">>, <<"!", "[", "a", "]", "(", "h",
      "t", "t", "p", "s", ":", "/", "/", "x", ".", "i", "o", "/", "i", ".", "p", "n", "g", ")">>,
         <<"-", " ", "b">>, <<"1", ".", " ", "n">>, <<"|", " ", "a", " ", "|">>, Fence }
\* a reference to an image, and the lines of one or two references
ImageUrls ==
  { <<"h", "t", "t", "p", "s", ":", "/", "/", "x", ".", "i", "o", "/", "i", ".", "p", "n", "g">>,
      <<"h", "t", "t", "p", ":", "/", "/", "x", ".", "i", "o", "/", "a", " ", "b", ".", "p", "n",
      "g">>, <<"/", "l", "o", "c", "a", "l", "/", "i", ".", "p", "n", "g">>, <<"i", ".", "p", "n",
      "g">>,
    <<"d", "a", "t", "a", ":", "i", "m", "a", "g", "e", "/", "p", "n", "g", ";", "b", "a", "s",
        "e", "6", "4", ",", "A", "A">>, <<"j", "a", "v", "a", "s", "c", "r", "i", "p", "t", ":",
        "v", "o", "i", "d">>, <<"f", "t", "p", ":", "/", "/", "x", ".", "i", "o", "/", "i", ".",
        "p", "n", "g">>,
    <<"h", "t", "t", "p", ":", "/", "/", "l", "o", "c", "a", "l", "h", "o", "s", "t", "/", "i",
        ".", "p", "n", "g">>, <<"h", "t", "t", "p", "s", ":", "/", "/", "x", ".", "i", "o", "/",
        "d", "a", "t", "a", ":", "i", "m", "a", "g", "e">> }
ImageRef(alt, url) == <<"!", "[">> \o alt \o <<"]", "(">> \o url \o <<")">>
ImageLines ==
  {ImageRef(<<"a">>, u) : u \in ImageUrls}
  \cup {ImageRef(<<>>, u) \o <<" ">> \o ImageRef(<<"b">>, v) : u \in ImageUrls, v \in ImageUrls}
\* fences whose body is about as long as the limit of a text field
FencedBodies ==
  { <<"x", " ", "=", " ", "1">>, Rep("x", 1900), Rep("x", 2000), Rep("x", LongTextLen),
    Rep("x", 1900 + LongTextLen), Rep("x", 3800),
    Rep("x", 1000) \o <<"\n">> \o Rep("y", 1000),
    Rep("x", 1899) \o <<"\n">> \o Rep("y", 10) \o <<"\n">> \o Rep("z", LongTextLen) }
LongFences ==
  {Fence \o lang \o <<"\n">> \o body \o <<"\n">> \o Fence \o tail :
     lang \in {<<>>, <<"p", "y">>, <<"f", "o", "o", "b", "a", "r">>}, body \in FencedBodies,
         tail \in {<<>>, <<"\n", "a", "b">>}}

\* the texts of 1..n lines drawn from lines
RECURSIVE LineTexts(_, _)
LineTexts(lines, n) ==
  IF n = 1 THEN lines
  ELSE LET shorter == LineTexts(lines, n - 1)
       IN shorter \cup {t \o <<"\n">> \o l : t \in shorter, l \in lines}

Markdowns ==
  LineTexts(LexLines, MaxLexLines) \cup LineTexts(TableLines, MaxTableLines)
  \cup LineTexts(ParaLines, MaxParaLines) \cup ImageLines \cup LongFences

\* language hints: the aliases, the languages of Notion, unknown words, and
\* hints in capitals or between spaces
LangHints ==
  {lang_map[k][1] : k \in 1..Len(lang_map)} \cup valid_languages
  \cup { <<>>, <<"f", "o", "o", "b", "a", "r">>, <<"x">>, <<"P", "Y">>, <<"J", "s", "x">>, <<" ",
      "t", "s", " ">>, <<"C", "P", "P">>, <<"p", " ", "y">>,
         <<"P", "l", "a", "i", "n", " ", "T", "e", "x", "t">>, <<"c">> \o <<"\t">> }

InitLex ==
  /\ model = FALSE
  /\ call = NoCall
  /\ fmt = NoCall
  /\ spl = NoCall
  /\ lex \in {[pc |-> "start", markdown |-> m] : m \in Markdowns}
           \cup {[pc |-> "hint", code |-> <<"x", " ", "=", " ", "1">>,
               language |-> l] : l \in LangHints}
  /\ brk = NoCall
  /\ par = NoCall
  /\ req = NoCall

MarkdownToNotionBlocks ==
  /\ lex.pc = "start"
  /\ lex' = [pc |-> "done", markdown |-> lex.markdown,
             blocks |-> _markdown_to_notion_blocks(lex.markdown)]
  /\ UNCHANGED <<model, call, fmt, spl, brk, par, req>>

CreateCodeBlock ==
  /\ lex.pc = "hint"
  /\ lex' = [pc |-> "coded", code |-> lex.code, language |-> lex.language,
             block |-> _create_code_block(lex.code, lex.language)]
  /\ UNCHANGED <<model, call, fmt, spl, brk, par, req>>

NextLex == MarkdownToNotionBlocks \/ CreateCodeBlock

SpecLex == InitLex /\ [][NextLex]_vars

(***************************************************************************)
(* Properties of the lexer (SpecLex)                                       *)
(***************************************************************************)
\* the aliases that the specification names, with their canonical tags
NamedAliases ==
  { <<<<"p", "y">>, <<"p", "y", "t", "h", "o", "n">>>>, <<<<"j", "s">>, <<"j", "a", "v", "a", "s",
      "c", "r", "i", "p", "t">>>>, <<<<"j", "s", "x">>, <<"j", "a", "v", "a", "s", "c", "r", "i",
      "p", "t">>>>,
    <<<<"t", "s">>, <<"t", "y", "p", "e", "s", "c", "r", "i", "p", "t">>>>, <<<<"c", "p", "p">>,
        <<"c", "+", "+">>>> }
\* hints that are neither an alias nor a language of Notion, whatever their case
UnknownHints == { <<>>, <<"f", "o", "o", "b", "a", "r">>, <<"x">>, <<"p", " ", "y">> }
PlainText == <<"p", "l", "a", "i", "n", " ", "t", "e", "x", "t">>

\* C11: for every language hint the language of the code block is in the
\* allow-list of Notion languages; py gives python, js and jsx give
\* javascript, ts gives typescript, cpp gives c++; an unknown hint such as
\* foobar gives plain text; the code blocks that the lexer emits have a
\* language of the allow-list too.
C11_LanguageInAllowList ==
  /\ lex.pc = "coded" =>
       /\ lex.block.type = "code"
       /\ lex.block.language \in valid_languages
       /\ \A a \in NamedAliases : lex.language = a[1] => lex.block.language = a[2]
       /\ lex.language \in UnknownHints => lex.block.language = PlainText
  /\ lex.pc = "done" =>
       \A k \in 1..Len(lex.blocks) :
         lex.blocks[k].type = "code" => lex.blocks[k].language \in valid_languages
\* an unknown hint was given and the block came back as plain text
C11_Witness ==
  /\ lex.pc = "coded"
  /\ lex.language = <<"f", "o", "o", "b", "a", "r">>
  /\ lex.block.language = PlainText

\* markdown.split('\n')
LinesOf(markdown) == Split(markdown, <<"\n">>)
\* the code block of a language and a raw text
CodeOf(language, text) ==
  [type |-> "code", rich_text |-> <<PlainSpan(text)>>, language |-> language]

\* the line of an opening fence, a line of code and a final newline
UnterminatedFence == Fence \o <<"j", "s", "x", "\n", "f", "u", "n", "c", "t", "i", "o", "n", " ",
    "f", "(", ")", "{", "}", "\n">>

\* C12: when the input ends before a closing fence the lexer still emits the
\* collected lines as one code block with the normalized language: the
\* opening fence of jsx, the line function f(){} and a final newline give
\* exactly one code block of language javascript and raw text function f(){}.
C12_UnterminatedFenceEmitsCode ==
  lex.pc = "done" /\ lex.markdown = UnterminatedFence =>
    lex.blocks = <<CodeOf(<<"j", "a", "v", "a", "s", "c", "r", "i", "p", "t">>, <<"f", "u", "n",
        "c", "t", "i", "o", "n", " ", "f", "(", ")", "{", "}">>)>>

\* fence lines that hold their closing marker, with the first token after the
\* opening marker, normalized, and the code that follows it
SameLineExamples ==
  { [line |-> Fence \o <<"p", "y", "t", "h", "o", "n", " ", "p", "r", "i", "n", "t", "(", "'", "h",
      "i", "'", ")">> \o Fence,
     language |-> <<"p", "y", "t", "h", "o", "n">>, code |-> <<"p", "r", "i", "n", "t", "(", "'",
         "h", "i", "'", ")">>],
    [line |-> Fence \o <<"j", "s", " ", "a", " ", "b">> \o Fence \o <<" ", "c">>,
     language |-> <<"j", "a", "v", "a", "s", "c", "r", "i", "p", "t">>, code |-> <<"a", " ",
         "b">>] }

\* C13: a fence line that holds its closing marker gives exactly one code
\* block, whose language is the first token after the opening marker,
\* normalized, and whose raw text is the code that follows the token; the
\* cursor advances by one line, so the lines after it are lexed as they
\* would be alone.
C13_SameLineFence ==
  lex.pc = "done" =>
    \A e \in SameLineExamples :
      Head(LinesOf(lex.markdown)) = e.line =>
        /\ lex.blocks # <<>>
        /\ Head(lex.blocks) = CodeOf(e.language, e.code)
        /\ Tail(lex.blocks)
             = _markdown_to_notion_blocks(Join(Tail(LinesOf(lex.markdown)), <<"\n">>))
\* the example of the claim was lexed, followed by a line that gave a block
C13_Witness ==
  /\ lex.pc = "done"
  /\ Head(LinesOf(lex.markdown)) = Fence \o <<"p", "y", "t", "h", "o", "n", " ", "p", "r", "i",
      "n", "t", "(", "'", "h", "i", "'", ")">> \o Fence
  /\ Len(LinesOf(lex.markdown)) = 2
  /\ Len(lex.blocks) = 2
  /\ Head(lex.blocks) = CodeOf(<<"p", "y", "t", "h", "o", "n">>, <<"p", "r", "i", "n", "t", "(",
      "'", "h", "i", "'", ")">>)

\* The cells of a table line as the specification defines them: the line is
\* split on "|", the cells are trimmed, and the empty cells of the outer
\* pipes are dropped.
OuterCells(line) ==
  LET parts == Split(line, <<"|">>)
      cells == [k \in 1..Len(parts) |-> Strip(parts[k])]
      a == IF cells # <<>> /\ Head(cells) = <<>> THEN Tail(cells) ELSE cells
  IN IF a # <<>> /\ a[Len(a)] = <<>> THEN SubSeq(a, 1, Len(a) - 1) ELSE a
\* every non-empty cell is a run of dashes between optional colons
IsSeparatorRow(cells) ==
  \A k \in 1..Len(cells) : cells[k] # <<>> => IsSeparatorCell(cells[k])
\* the header row and the data rows of a run of table lines
HeaderAndData(markdown) ==
  SelectSeq([k \in 1..Len(LinesOf(markdown)) |-> OuterCells(LinesOf(markdown)[k])],
            LAMBDA cells : ~IsSeparatorRow(cells))
IsTableRun(markdown) ==
  \A k \in 1..Len(LinesOf(markdown)) : StartsWith(Strip(LinesOf(markdown)[k]), <<"|">>)

\* C14: a table run with a header row and at least one data row gives exactly
\* one table block; its column count is the number of cells of the header,
\* it has the header row and one row for each data row, every row has as many
\* cells as there are columns, and no separator row is among them.
C14_TableShape ==
  lex.pc = "done" /\ IsTableRun(lex.markdown) /\ Len(HeaderAndData(lex.markdown)) >= 2 =>
    /\ Len(lex.blocks) = 1
    /\ lex.blocks[1].type = "table"
    /\ lex.blocks[1].table_width = Len(Head(HeaderAndData(lex.markdown)))
    /\ Len(lex.blocks[1].children) = Len(HeaderAndData(lex.markdown))
    /\ \A r \in 1..Len(lex.blocks[1].children) :
         Len(lex.blocks[1].children[r]) = lex.blocks[1].table_width

\* C15: a table run without a header row or without a data row, such as a
\* header row followed only by a separator row, gives no block.
C15_NoHeaderOrNoDataGivesNothing ==
  lex.pc = "done" /\ IsTableRun(lex.markdown) /\ Len(HeaderAndData(lex.markdown)) < 2 =>
    lex.blocks = <<>>
\* a header row followed only by a separator row was converted
C15_Witness ==
  /\ lex.pc = "done"
  /\ lex.markdown = <<"|", " ", "a", " ", "|", " ", "b", " ", "|", "\n", "|", "-", "-", "-", "|",
      "-", "-", "-", "|">>
  /\ lex.blocks = <<>>

\* lines that open a fence and hold neither code nor a closing marker
OpeningLines == { Fence, Fence \o <<"j", "s", "x">>, Fence \o <<"p", "y", "t", "h", "o", "n">> }
\* the index of the first line after the opening line whose trimmed form is
\* the bare fence, or one past the last line
BareFenceAfterFirst(lines) ==
  IF \E k \in 2..Len(lines) : Strip(lines[k]) = Fence
  THEN MinOf({k \in 2..Len(lines) : Strip(lines[k]) = Fence})
  ELSE Len(lines) + 1

\* C20: once a fence is open the lines that follow are collected as they are,
\* and only a line whose trimmed form is the bare fence closes it: the raw
\* text of the code block is every line before that line, joined by newlines.
C20_FenceClosedOnlyByBareFence ==
  lex.pc = "done" /\ Head(LinesOf(lex.markdown)) \in OpeningLines
  /\ BareFenceAfterFirst(LinesOf(lex.markdown)) > 2 =>
    /\ lex.blocks # <<>>
    /\ Head(lex.blocks).type = "code"
    /\ Head(lex.blocks).rich_text
         = <<PlainSpan(Join(SubSeq(LinesOf(lex.markdown), 2,
                                   BareFenceAfterFirst(LinesOf(lex.markdown)) - 1),
                            <<"\n">>))>>

(***************************************************************************)
(* SpecParser: two calls of parse_and_format_for_notion that run on one    *)
(* CleanContentParser, each on its own thread.  A call stores its images   *)
(* in self.page_images (line 75), extracts the content, and then either    *)
(* builds the prompt of the model from self.page_images (lines 195-209) or *)
(* structures the content by hand; the other call can run between the      *)
(* store and the read.  The content of both calls is educational text.     *)
(***************************************************************************)
\* most images of the page of a call
MaxPageImages == 2

\* img.get(key, default)
Get(img, key, default) == IF key \in DOMAIN img THEN img[key] ELSE default

\* lines 202-206: the line of one image in the prompt
ImageHintLine(img) ==
  IF Get(img, "src", <<>>) # <<>>
  THEN <<"-", " ", "!", "[">> \o Get(img, "alt", <<"U", "n", "t", "i", "t", "l", "e",
      "d">>) \o <<"]", "(">> \o Get(img, "src", <<>>)
       \o <<")", " ", "(", "T", "y", "p", "e", ":", " ">> \o Get(img, "type", <<"c", "o", "n", "t",
           "e", "n", "t">>) \o <<")", "\n">>
  ELSE <<>>

RECURSIVE ImageHintLines(_)
ImageHintLines(imgs) ==
  IF imgs = <<>> THEN <<>> ELSE ImageHintLine(Head(imgs)) \o ImageHintLines(Tail(imgs))

\* lines 195-209: image_context, built from the first five stored images
ImageContext(page_images) ==
  IF page_images # <<>>
  THEN <<"\n", "\n", "A", "V", "A", "I", "L", "A", "B", "L", "E", " ", "I", "M", "A", "G", "E",
      "S", " ", "(", "u", "s", "e", " ", "t", "h", "e", "s", "e", " ", "U", "R", "L", "s", ")",
      ":", "\n">> \o ImageHintLines(Slice(page_images, 0, 5))
  ELSE <<>>

PageImages ==
  { [src |-> <<"h", "t", "t", "p", ":", "/", "/", "a", "/", "1", ".", "p", "n", "g">>,
      alt |-> <<"l", "e", "a", "f">>, type |-> <<"e", "d", "u", "c", "a", "t", "i", "o", "n", "a",
      "l">>],
    [src |-> <<"h", "t", "t", "p", ":", "/", "/", "b", "/", "2", ".", "p", "n", "g">>],
    [src |-> <<>>, alt |-> <<"n", "o", "n", "e">>] }
RECURSIVE ImageLists(_)
ImageLists(n) ==
  IF n = 0 THEN {<<>>}
  ELSE ImageLists(n - 1) \cup {Append(l, img) : l \in ImageLists(n - 1), img \in PageImages}
\* six images, of which the prompt takes five
SixImages == [k \in 1..6 |-> [src |-> <<"h", "t", "t", "p", ":", "/", "/", "c", "/">> \o <<"1",
    "2", "3", "4", "5", "6">>[k]]]
Calls == {1, 2}

InitParser ==
  /\ model \in BOOLEAN
  /\ call = NoCall
  /\ fmt = NoCall
  /\ spl = NoCall
  /\ lex = NoCall
  /\ brk = NoCall
  /\ par \in {[page_images |-> <<>>, pc |-> [c \in Calls |-> "start"],
              images |-> imgs, hints |-> [c \in Calls |-> <<>>]] :
                imgs \in [Calls -> ImageLists(MaxPageImages) \cup {SixImages}]}
  /\ req = NoCall

\* line 75: self.page_images = images or []
StoreImages(c) ==
  /\ par # NoCall
  /\ par.pc[c] = "start"
  /\ par' = [par EXCEPT !.page_images = par.images[c], !.pc[c] = "stored"]
  /\ UNCHANGED <<model, call, fmt, spl, lex, brk, req>>

\* lines 89-92 and 195-209: the prompt of the call is built from self.page_images
AIStructure(c) ==
  /\ par # NoCall
  /\ par.pc[c] = "stored"
  /\ model
  /\ par' = [par EXCEPT !.hints[c] = ImageContext(par.page_images), !.pc[c] = "done"]
  /\ UNCHANGED <<model, call, fmt, spl, lex, brk, req>>

\* lines 89 and 102: without a model the content is structured by hand
ManualStructure(c) ==
  /\ par # NoCall
  /\ par.pc[c] = "stored"
  /\ ~model
  /\ par' = [par EXCEPT !.pc[c] = "done"]
  /\ UNCHANGED <<model, call, fmt, spl, lex, brk, req>>

NextParser ==
  \E c \in Calls : StoreImages(c) \/ AIStructure(c) \/ ManualStructure(c)

SpecParser == InitParser /\ [][NextParser]_vars

\* C16: two calls that run interleaved on one parser do not interfere: the
\* image hints in the prompt of a call are those of the images given to that
\* call, and no call reads the image list stored by the other.
C16_CallsDoNotInterfere ==
  par # NoCall =>
    \A c \in Calls :
      par.pc[c] = "done" /\ model => par.hints[c] = ImageContext(par.images[c])

(***************************************************************************)
(* Properties of save_content (Spec)                                       *)
(***************************************************************************)
\* C17: every request of save_content that creates a page carries at most 100
\* top-level children, whatever the number of blocks that the preparation of
\* the content gave.
C17_RequestHasAtMost100Children ==
  call.pc = "created" => Len(call.children) <= 100
\* the preparation gave more than 100 blocks and the request carries 100
C17_Witness ==
  /\ call.pc = "created"
  /\ Len(call.blocks) > 100
  /\ Len(call.children) = 100
  /\ call.children = SubSeq(call.blocks, 1, 100)

(***************************************************************************)
(* _find_best_break_point                                                  *)
(***************************************************************************)
\* int(n * 0.7) in double arithmetic: the product of n and the double nearest
\* to 0.7 is below 7n/10, and it rounds to a double below the integer 7n/10
\* when n = 10m and 2^(e-2) < m, 7m < 2^(e+1) for some e (n = 90, 170, 180, ...)
IntOfSevenTenths(n) ==
  LET m == n \div 10
  IN IF n % 10 = 0 /\ \E e \in 2..27 : 2^(e - 2) < m /\ 7 * m < 2^(e + 1)
     THEN 7 * m - 1
     ELSE (7 * n) \div 10

\* the characters of the class [-•*]
ListMarkers == {"-", Bullet, "*"}

\* the end of the longest run of characters of set that starts at i (\s*, \d*)
RunEnd(t, i, set) ==
  LET stop(j) == j >= Len(t) \/ At(t, j) \notin set
  IN CHOOSE j \in i..Len(t) : stop(j) /\ \A k \in i..(j - 1) : ~stop(k)

\* the end of the match of \n\s*[-•*]\s+|\n\s*\d+\.\s+ at i, -1 without a match
ListMarkerMatchEnd(t, i) ==
  LET ws(j) == j < Len(t) /\ At(t, j) \in Whitespace
      bullet(q) == q < Len(t) /\ At(t, q) \in ListMarkers /\ ws(q + 1)
      number(q, d) == d > q /\ d < Len(t) /\ At(t, d) = "." /\ ws(d + 1)
      alternatives(q, d) ==
        IF bullet(q) THEN RunEnd(t, q + 2, Whitespace)
        ELSE IF number(q, d) THEN RunEnd(t, d + 2, Whitespace)
        ELSE -1
      after(q) == alternatives(q, RunEnd(t, q, Digits))
  IN IF i >= Len(t) \/ At(t, i) # "\n" THEN -1
     ELSE after(RunEnd(t, i + 1, Whitespace))

\* for match in re.finditer(...): if min_pos <= match.start() <= max_pos: return
ListMarkerStep(t, min_pos, max_pos, st) ==
  LET hit(i) == ListMarkerMatchEnd(t, i) # -1
      take(start) ==
        IF start = -1 THEN [st EXCEPT !.done = TRUE]
        ELSE IF min_pos <= start /\ start <= max_pos
        THEN [st EXCEPT !.found = start, !.done = TRUE]
        ELSE [st EXCEPT !.pos = ListMarkerMatchEnd(t, start)]
  IN take(IF \E cand \in (st.pos)..(Len(t) - 1) : hit(cand)
          THEN CHOOSE cand \in (st.pos)..(Len(t) - 1) :
                 hit(cand) /\ \A prev \in (st.pos)..(cand - 1) : ~hit(prev)
          ELSE -1)
RECURSIVE ListMarkerLoop(_, _, _, _, _)
ListMarkerLoop(t, min_pos, max_pos, st, fuel) ==
  IF st.done THEN st
  ELSE IF fuel <= 1 THEN ListMarkerStep(t, min_pos, max_pos, st)
  ELSE LET mid == ListMarkerLoop(t, min_pos, max_pos, st, fuel \div 2)
       IN IF mid.done THEN mid
          ELSE ListMarkerLoop(t, min_pos, max_pos, mid, fuel - (fuel \div 2))

\* for i in range(hi, lo - 1, -1): if text[i:i+len(p)] in kinds: the first such i
LastBoundary(text, kinds, lo, hi) ==
  LET hit(i) == \E p \in kinds : MatchAt(text, p, i)
  IN IF \E cand \in lo..hi : hit(cand)
     THEN CHOOSE cand \in lo..hi : hit(cand) /\ \A later \in (cand + 1)..hi : ~hit(later)
     ELSE -1

ParagraphBreaks == {<<"\n", "\n">>}
SentenceEndings == {<<".", " ">>, <<"!", " ">>, <<"?", " ">>}
ClauseEndings == {<<",", " ">>, <<";", " ">>}
Spaces == {<<" ">>}

_find_best_break_point(text) ==
  LET max_pos == Len(text)
      min_pos == Len(text) \div 2
      space(i) == IF i # -1 THEN i + 1 ELSE -1
      clause(i) ==
        IF i # -1 THEN i + 2
        ELSE space(LastBoundary(text, Spaces, min_pos, max_pos - 1))
      sentence(i) ==
        IF i # -1 THEN i + 2
        ELSE clause(LastBoundary(text, ClauseEndings, IntOfSevenTenths(max_pos), max_pos - 2))
      marker(i) ==
        IF i # -1 THEN i
        ELSE sentence(LastBoundary(text, SentenceEndings, min_pos, max_pos - 2))
      paragraph(i) ==
        IF i # -1 THEN i + 2
        ELSE marker(ListMarkerLoop(text, min_pos, max_pos,
                                   [pos |-> 0, found |-> -1, done |-> FALSE],
                                   Len(text) + 1).found)
  IN paragraph(LastBoundary(text, ParagraphBreaks, min_pos, max_pos - 2))

(***************************************************************************)
(* NotionService._smart_split_content (notion_service.py 1122-1174)        *)
(* The blocks are held by their texts: the rich text of a block is made    *)
(* from its text by _convert_markdown_to_rich_text, which takes no part in *)
(* the cuts.                                                               *)
(***************************************************************************)
\* most iterations of the splitting loop that are followed
MaxSplitIterations == 4

\* lines 1151-1160: the place of the cut of a text longer than 2000 characters
BreakPointOf(remaining) ==
  LET emergency(last_space) == IF last_space = -1 THEN 1999 ELSE last_space
      forced(chunk, break_point) ==
        IF break_point = -1 THEN emergency(RFind(chunk, <<" ">>)) ELSE break_point
      optimal(chunk) == forced(chunk, _find_best_break_point(chunk))
  IN optimal(Slice(remaining, 0, 2000))

\* the text after the cut with its spaces
NextRemainingUnstripped(remaining, break_point) == From(remaining, break_point)

\* line 1172: the text that is left after the cut
NextRemaining(remaining, break_point) == Strip(From(remaining, break_point))

\* lines 1139-1172: one iteration of while remaining
SmartSplitStep(st) ==
  LET cut(break_point, chunk_content) ==
        [st EXCEPT !.chunks = IF chunk_content # <<>> THEN Append(@, chunk_content) ELSE @,
                   !.remaining = NextRemaining(st.remaining, break_point)]
      at(break_point) == cut(break_point, Strip(Slice(st.remaining, 0, break_point)))
  IN IF st.remaining = <<>> THEN [st EXCEPT !.done = TRUE]
     ELSE IF Len(st.remaining) <= 2000
     THEN [st EXCEPT !.chunks = Append(@, st.remaining), !.done = TRUE]
     ELSE at(BreakPointOf(st.remaining))
RECURSIVE SmartSplitLoop(_, _)
SmartSplitLoop(st, fuel) ==
  IF st.done THEN st
  ELSE IF fuel <= 1 THEN SmartSplitStep(st)
  ELSE LET mid == SmartSplitLoop(st, fuel \div 2)
       IN IF mid.done THEN mid ELSE SmartSplitLoop(mid, fuel - (fuel \div 2))

\* lines 1127-1174: the texts of the blocks, the text that is left and
\* whether the loop has ended within MaxSplitIterations iterations
_smart_split_content(content) ==
  IF Len(content) <= 2000
  THEN [remaining |-> content, chunks |-> <<content>>, done |-> TRUE]
  ELSE SmartSplitLoop([remaining |-> content, chunks |-> <<>>, done |-> FALSE],
                      MaxSplitIterations)

(***************************************************************************)
(* SpecBreak: _find_best_break_point applied to one chunk, or              *)
(* _smart_split_content applied to one content                             *)
(***************************************************************************)
\* most tokens of a chunk given to the search of a break point
MaxBreakTokens == 4

BreakTokens == {<<"a">>, <<" ">>, <<"\n">>, <<"\n", "-", " ", "x">>, <<"\n", "1", ".", " ", "x">>,
    <<".", " ">>, <<",", " ">>, <<"a", "a", "a", "a", "a", "a", "a", "a">>}
Chunks == TokenTexts(BreakTokens, MaxBreakTokens)

\* the separators between the two runs of a content
Separators == {<<" ">>, <<".", " ">>, <<",", " ">>, <<"\n", "\n">>, <<"\n", "-", " ">>, <<"\n",
    "1", ".", " ">>}

\* contents given to _smart_split_content: short ones, runs without a space,
\* a run after one space, a space in the first or in the second half of the
\* first 2000 characters, spaces alone, and three runs cut twice
LongContents ==
  { <<>>, <<"a", "b", "c">>, Rep("a", LongTextLen - 1), Rep("a", LongTextLen),
    <<" ">> \o Rep("a", LongTextLen), <<"\n">> \o Rep("a", LongTextLen),
    Rep("a", 500) \o <<" ">> \o Rep("a", LongTextLen),
    Rep("a", LongTextLen - 2) \o <<" ", "b">>,
    Rep(" ", LongTextLen), Rep("a", LongTextLen) \o Rep(" ", LongTextLen),
    Rep("a", 1500) \o <<".", " ">> \o Rep("b", 1500) \o <<"\n", "-", " ">> \o Rep("c", 1500),
    Rep("a", 2 * LongTextLen) }
  \cup {Rep("a", 1500) \o sep \o Rep("b", 1000) : sep \in Separators}

InitBreak ==
  /\ model = FALSE
  /\ call = NoCall
  /\ fmt = NoCall
  /\ spl = NoCall
  /\ lex = NoCall
  /\ brk \in {[pc |-> "start", text |-> t] : t \in Chunks}
            \cup {[pc |-> "content", content |-> c] : c \in LongContents}
  /\ par = NoCall
  /\ req = NoCall

FindBestBreakPoint ==
  /\ brk.pc = "start"
  /\ brk' = [pc |-> "done", text |-> brk.text, pos |-> _find_best_break_point(brk.text)]
  /\ UNCHANGED <<model, call, fmt, spl, lex, par, req>>

SmartSplitContent ==
  /\ brk.pc = "content"
  /\ brk' = [pc |-> "split", content |-> brk.content] @@ _smart_split_content(brk.content)
  /\ UNCHANGED <<model, call, fmt, spl, lex, par, req>>

NextBreak == FindBestBreakPoint \/ SmartSplitContent

SpecBreak == InitBreak /\ [][NextBreak]_vars

(***************************************************************************)
(* Properties of _find_best_break_point (SpecBreak)                        *)
(***************************************************************************)
\* the positions i of lo..hi where text holds one of kinds
BoundariesIn(text, kinds, lo, hi) ==
  {i \in lo..hi : \E p \in kinds : MatchAt(text, p, i)}
\* the positions of lo..hi where text holds a newline and a list marker:
\* "\n- ", "\n* " or "\n<number>. "
ListMarkerNewlinesIn(text, lo, hi) ==
  {i \in lo..hi :
     \/ MatchAt(text, <<"\n", "-", " ">>, i)
     \/ MatchAt(text, <<"\n", "*", " ">>, i)
     \/ /\ MatchAt(text, <<"\n">>, i)
        /\ \E d \in (i + 2)..(Len(text) - 2) :
             /\ \A k \in (i + 1)..(d - 1) : At(text, k) \in Digits
             /\ MatchAt(text, <<".", " ">>, d)}
\* the break points of the five kinds of boundary, in the order of their
\* priority: the break point of a list-marker newline is the newline, that of
\* any other boundary is the position after it
BreakPointsByKind(text) ==
  LET max_pos == Len(text)
      min_pos == Len(text) \div 2
  IN << {i + 2 : i \in BoundariesIn(text, ParagraphBreaks, min_pos, max_pos - 2)},
        ListMarkerNewlinesIn(text, min_pos, max_pos),
        {i + 2 : i \in BoundariesIn(text, SentenceEndings, min_pos, max_pos - 2)},
        {i + 2 : i \in BoundariesIn(text, ClauseEndings, IntOfSevenTenths(max_pos), max_pos - 2)},
        {i + 1 : i \in BoundariesIn(text, Spaces, min_pos, max_pos - 1)} >>
\* the last break point of the first kind that has one, -1 when no kind has one
LastOfFirstKind(kinds) ==
  IF \A k \in 1..Len(kinds) : kinds[k] = {} THEN -1
  ELSE LET first == CHOOSE k \in 1..Len(kinds) :
                      kinds[k] # {} /\ \A h \in 1..(k - 1) : kinds[h] = {}
       IN CHOOSE p \in kinds[first] : \A q \in kinds[first] : q <= p

\* C19: _find_best_break_point tries the kinds of boundary in the order
\* paragraph break, list-marker newline, sentence ending, comma or semicolon
\* (last 30% of the chunk), space, and returns the last occurrence of the
\* first kind that occurs in its window; a boundary of a lower priority is
\* never chosen while one of a higher priority exists at or after the middle.
C19_LastOccurrenceOfFirstKind ==
  brk.pc = "done" => brk.pos = LastOfFirstKind(BreakPointsByKind(brk.text))

(***************************************************************************)
(* Properties of the lexer, continued (SpecLex)                            *)
(***************************************************************************)
\* the blocks of the lines k..Len(lines) lexed as a text of their own
BlocksFrom(lines, k) ==
  _markdown_to_notion_blocks(Join(SubSeq(lines, k, Len(lines)), <<"\n">>))
\* a line that is blank or that starts a construct other than a paragraph:
\* lexed alone it does not give the paragraph of its own text
EndsParagraph(line) ==
  _markdown_to_notion_blocks(line) # <<_create_paragraph(RStrip(line))>>
\* the index of the first line after the first one that ends a paragraph, or
\* one past the last line
ParagraphEnd(lines) ==
  IF \E k \in 2..Len(lines) : EndsParagraph(lines[k])
  THEN MinOf({k \in 2..Len(lines) : EndsParagraph(lines[k])})
  ELSE Len(lines) + 1

\* C21: a paragraph ends at the first following line that is blank or that
\* starts another construct (fence, heading, equation on its own line, image
\* line, bullet, numbered item, table row): the line is not joined into the
\* text of the paragraph and it is lexed as its own construct.
C21_ParagraphEndsAtSpecialLine ==
  lex.pc = "done" /\ Head(LinesOf(lex.markdown)) \in PlainLines =>
    lex.blocks
      = <<_create_paragraph(Join(SubSeq(LinesOf(lex.markdown), 1,
                                        ParagraphEnd(LinesOf(lex.markdown)) - 1), <<" ">>))>>
        \o BlocksFrom(LinesOf(lex.markdown), ParagraphEnd(LinesOf(lex.markdown)))

\* the number of # at the start of line
LeadingHashes(line) == Len(line) - Len(LStripSet(line, {"#"}))
\* a heading line of level 4 or deeper: four or more # and a space
IsDeepHeading(line) ==
  LeadingHashes(line) >= 4 /\ MatchAt(line, <<" ">>, LeadingHashes(line))

\* C22: a heading line of four or more # is emitted as a heading of level 3
\* whose text is the line without its markers; no heading block has a level
\* other than 1, 2, 3.
C22_DeepHeadingBecomesLevel3 ==
  lex.pc = "done" =>
    /\ IsDeepHeading(Head(LinesOf(lex.markdown))) =>
         /\ lex.blocks # <<>>
         /\ Head(lex.blocks)
              = _create_heading(Strip(LStripSet(Head(LinesOf(lex.markdown)), {"#"})), 3)
    /\ \A k \in 1..Len(lex.blocks) :
         lex.blocks[k].type \notin {"heading_4", "heading_5", "heading_6"}

\* the URL of a reference is one that Notion can show: http or https, and
\* none of the patterns of a local, embedded or script URL
IsSupportedUrl(url) ==
  /\ \/ StartsWith(url, <<"h", "t", "t", "p", ":", "/", "/">>)
     \/ StartsWith(url, <<"h", "t", "t", "p", "s", ":", "/", "/">>)
  /\ \A pattern \in problematic_patterns : ~Contains(Lower(url), pattern)
\* a paragraph of one text whose content holds a note between brackets
IsPlaceholder(block) ==
  /\ block.type = "paragraph"
  /\ Len(block.rich_text) = 1
  /\ Contains(block.rich_text[1].content, <<"[">>)
  /\ EndsWith(block.rich_text[1].content, <<"]">>)

\* C23: on a line of image references every reference gives one block: an
\* image block when its URL is an http(s) URL that is supported, a placeholder
\* paragraph with a note between brackets otherwise; no reference is dropped.
C23_EveryReferenceGivesABlock ==
  lex.pc = "done" /\ lex.markdown \in ImageLines =>
    /\ Len(lex.blocks) = Len(ImageScan(lex.markdown).images)
    /\ \A k \in 1..Len(lex.blocks) :
         IF IsSupportedUrl(ImageScan(lex.markdown).images[k].url)
         THEN lex.blocks[k].type = "image"
         ELSE IsPlaceholder(lex.blocks[k])

\* lines that open a fence with a language hint or none, and no code
HintOpenings == OpeningLines \cup { Fence \o <<"p", "y">>, Fence \o <<"f", "o", "o", "b", "a",
    "r">> }
\* the index of the first line after the opening line that starts with a
\* fence, or one past the last line
FenceAfterFirst(lines) ==
  IF \E k \in 2..Len(lines) : StartsWith(LStrip(lines[k]), Fence)
  THEN MinOf({k \in 2..Len(lines) : StartsWith(LStrip(lines[k]), Fence)})
  ELSE Len(lines) + 1
\* the lines between the opening line and the closing line, joined
FencedBody(lines) == Join(SubSeq(lines, 2, FenceAfterFirst(lines) - 1), <<"\n">>)
\* the blocks of the fence: those before the blocks of the lines after it
FenceBlocks(lines, blocks) ==
  SubSeq(blocks, 1, Len(blocks) - Len(BlocksFrom(lines, FenceAfterFirst(lines) + 1)))
CodeTexts(blocks) == [k \in 1..Len(blocks) |-> blocks[k].rich_text[1].content]

CursorAt(i) == [i |-> i, blocks |-> <<>>, done |-> FALSE]

\* C29: the lexer terminates: each iteration of the loop over the lines moves
\* the cursor forward by at least one line, whatever the branch, and the loop
\* runs at most once for each line of the text.
C29_CursorAdvances ==
  lex.pc = "done" =>
    /\ \A i \in 0..(Len(LinesOf(lex.markdown)) - 1) :
         LexStep(LinesOf(lex.markdown), CursorAt(i)).i >= i + 1
    /\ LexLoop(LinesOf(lex.markdown), CursorAt(0), Len(LinesOf(lex.markdown)) + 1).done
\* a text of three lines was lexed in one iteration: a table of three rows
C29_Witness ==
  /\ lex.pc = "done"
  /\ Len(LinesOf(lex.markdown)) = 3
  /\ LexStep(LinesOf(lex.markdown), CursorAt(0)).i = 3
  /\ Len(lex.blocks) = 1
  /\ lex.blocks[1].type = "table"

(***************************************************************************)
(* Properties of _parse_inline_formatting, continued (SpecInline)          *)
(***************************************************************************)
\* the start of m falls inside the span of an accepted match
StartsInside(m, accepted) ==
  \E j \in 1..Len(accepted) : m.start >= accepted[j].start /\ m.start < accepted[j].end
\* the candidates of one pattern, each accepted unless its start falls inside
\* a match accepted before it
RECURSIVE AcceptFrom(_, _, _)
AcceptFrom(accepted, found, k) ==
  IF k > Len(found) THEN accepted
  ELSE AcceptFrom(IF StartsInside(found[k], accepted) THEN accepted
                  ELSE Append(accepted, found[k]),
                  found, k + 1)
\* the candidates of the patterns p..4 taken in the order of precedence
RECURSIVE AcceptedMatches(_, _, _)
AcceptedMatches(text, accepted, p) ==
  IF p > Len(InlinePatterns) THEN accepted
  ELSE AcceptedMatches(text, AcceptFrom(accepted, FindIter(text, InlinePatterns[p]), 1), p + 1)
\* the matches k..Len(ms) emitted in order, with the text between them
RECURSIVE EmitFrom(_, _, _, _)
EmitFrom(text, ms, k, pos) ==
  IF k > Len(ms)
  THEN IF pos < Len(text) THEN <<PlainSpan(From(text, pos))>> ELSE <<>>
  ELSE (IF pos < ms[k].start THEN <<PlainSpan(Slice(text, pos, ms[k].start))>> ELSE <<>>)
       \o MatchParts(ms[k]) \o EmitFrom(text, ms, k + 1, ms[k].end)
\* the spans of a text whose accepted matches are all emitted
SpansOfAccepted(text) ==
  LET spans == EmitFrom(text, SortByStart(AcceptedMatches(text, <<>>, 1)), 1, 0)
  IN IF spans = <<>> THEN <<PlainSpan(text)>> ELSE spans

\* C25: the candidates are taken in the order of precedence (equation, bold,
\* italic, code), a candidate whose start falls inside an accepted match is
\* discarded, and the accepted matches are emitted sorted by their start with
\* the plain text between them, so that the spans are in the order of the
\* source and no position of the text is covered by two spans.
C25_AcceptedMatchesAreEmittedInOrder ==
  fmt.pc = "done" => fmt.parts = SpansOfAccepted(fmt.text)

\* C26: a run between two pairs of tildes that overlaps no match of a higher
\* precedence is emitted as a span of its own, the tildes removed, as a bold,
\* italic, code or equation run is.
C26_StrikethroughIsRecognized ==
  fmt.pc = "done" /\ fmt.text \in StruckTexts =>
    \E k \in 1..Len(fmt.parts) :
      /\ fmt.parts[k].type = "text"
      /\ fmt.parts[k].content = <<"x">>

(***************************************************************************)
(* SpecSave: one request of save_to_notion (main.py).  Each action is the  *)
(* code between two awaits.  The page lives on the side of Notion: the     *)
(* call of client.pages.create returns the page, or raises without a page, *)
(* or raises after Notion has made the page (the answer is lost).          *)
(* created_page_id is set at line 449, after save_content has returned,    *)
(* and only the return of line 451 follows it; save_content raises         *)
(* ValueError only (lines 226 and 260-271), which line 457 catches.  So no *)
(* step reaches the calls of delete_page at lines 467 and 493.             *)
(***************************************************************************)
None == <<>>
\* a url that is a number of the JSON body, not a string
NumberUrl == <<"int 7">>
\* the url of the request: none, a page, a page of the browser, a number
RequestUrls ==
  { None, <<"h", "t", "t", "p", "s", ":", "/", "/", "e", "x", "a", "m", "p", "l", "e", ".", "c",
      "o", "m">>, <<"a", "b", "o", "u", "t", ":", "b", "l", "a", "n", "k">>, NumberUrl }
\* len(str(content)) of the request
ContentLengths == {0, 499, 500}
IsStr(url) == url # NumberUrl
\* line 396: the prefixes of the pages that are not scraped again
NoScrapePrefixes ==
  { <<"c", "h", "r", "o", "m", "e", "-", "e", "x", "t", "e", "n", "s", "i", "o", "n", ":", "/",
      "/">>, <<"m", "o", "z", "-", "e", "x", "t", "e", "n", "s", "i", "o", "n", ":", "/", "/">>,
      <<"a", "b", "o", "u", "t", ":">>, <<"d", "a", "t", "a", ":">> }
\* lines 395-399
should_rescrape(url, content_len) ==
  /\ url # None
  /\ ~(\E p \in NoScrapePrefixes : StartsWith(url, p))
  /\ content_len < 500

\* the answers of web_scraper.fetch_page_content
ScrapeOutcomes == {"content", "not_success", "no_content", "ValueError", "Exception"}
\* the answers of client.pages.create
CreateOutcomes == {"created", "rejected", "timed_out"}

InitSave ==
  /\ model = FALSE
  /\ call = NoCall
  /\ fmt = NoCall
  /\ spl = NoCall
  /\ lex = NoCall
  /\ brk = NoCall
  /\ par = NoCall
  /\ req \in {[pc |-> "start", notion_token |-> t, database_id |-> d, url |-> u,
               content_len |-> n, created_page_id |-> None, page |-> "none",
               success |-> FALSE, error |-> "none"] :
                t \in BOOLEAN, d \in BOOLEAN, u \in RequestUrls, n \in ContentLengths}

\* return NotionSaveResponse(success=False, error=...)
Failure(error) == [req EXCEPT !.pc = "responded", !.success = FALSE, !.error = error]

\* lines 375-401 and 438-439: the request is read
Receive ==
  /\ req.pc = "start"
  /\ req' = IF ~req.notion_token THEN Failure("no_token")
            ELSE IF req.url # None /\ ~IsStr(req.url) THEN Failure("unexpected")
            ELSE IF should_rescrape(req.url, req.content_len)
            THEN [req EXCEPT !.pc = "scrape"]
            ELSE [req EXCEPT !.pc = "save"]
  /\ UNCHANGED <<model, call, fmt, spl, lex, brk, par>>

\* lines 402-436: the page is scraped again
Rescrape ==
  /\ req.pc = "scrape"
  /\ \E outcome \in ScrapeOutcomes :
       req' = CASE outcome = "content" -> [req EXCEPT !.pc = "save"]
                [] outcome = "not_success" -> Failure("no_access")
                [] outcome = "no_content" -> Failure("no_content")
                [] outcome = "ValueError" -> Failure("blocked")
                [] outcome = "Exception" -> Failure("fetch_failed")
  /\ UNCHANGED <<model, call, fmt, spl, lex, brk, par>>

\* save_content, lines 224-234: the properties and the blocks of the page;
\* an exception becomes a ValueError (lines 260-271, main.py lines 457-462)
PreparePage ==
  /\ req.pc = "save"
  /\ \E raises \in BOOLEAN :
       req' = IF ~req.database_id \/ raises THEN Failure("content_error")
              ELSE [req EXCEPT !.pc = "create"]
  /\ UNCHANGED <<model, call, fmt, spl, lex, brk, par>>

\* save_content, lines 247-258, and main.py lines 449-455
CreatePage ==
  /\ req.pc = "create"
  /\ \E outcome \in CreateOutcomes :
       req' = CASE outcome = "created" ->
                     [req EXCEPT !.pc = "responded", !.page = "live",
                                 !.created_page_id = <<"p", "1">>, !.success = TRUE]
                [] outcome = "rejected" -> Failure("content_error")
                [] outcome = "timed_out" ->
                     [Failure("content_error") EXCEPT !.page = "live"]
  /\ UNCHANGED <<model, call, fmt, spl, lex, brk, par>>

NextSave == Receive \/ Rescrape \/ PreparePage \/ CreatePage

SpecSave == InitSave /\ [][NextSave]_vars

\* C27: when a failure occurs after the page was created the page is
\* archived before the failure is answered: no request ends with a failure
\* while the page that it created is live.
C27_FailureLeavesNoLivePage ==
  req.pc = "responded" /\ ~req.success => req.page # "live"

(***************************************************************************)
(* Properties of the consolidation (Spec)                                  *)
(***************************************************************************)
\* the blocks that _prepare_page_content hands to _consolidate_blocks
\* (line 490); an empty sequence when the consolidation does not run
ConsolidationInput ==
  IF call.pc \in {"done", "created"} /\ ~call.parsed.raised /\ Len(call.parsed.blocks) > 100
  THEN call.parsed.blocks ELSE <<>>

\* the contents of the first spans of the paragraphs of the blocks
FirstSpanTexts(blocks) ==
  LET firsts == [k \in 1..Len(blocks) |->
                   IF blocks[k].type = "paragraph" /\ blocks[k].rich_text # <<>>
                      /\ blocks[k].rich_text[1].type = "text"
                   THEN blocks[k].rich_text[1].content ELSE <<>>]
  IN SelectSeq(firsts, LAMBDA t : t # <<>>)

\* the non-empty pieces between blank lines of the texts, in their order
PiecesOf(texts) ==
  SelectSeq(Split(Join(texts, <<"\n", "\n">>), <<"\n", "\n">>), LAMBDA t : t # <<>>)

SplitStateAfter(content, k) ==
  LET start == [remaining |-> content, chunks |-> <<>>, done |-> FALSE]
  IN IF k = 0 THEN start ELSE SmartSplitLoop(start, k)

\* C30: the splitting loop of _smart_split_content ends: every iteration
\* either ends the loop or leaves a strictly shorter remaining text, whether
\* the cut is the break point of _find_best_break_point, the last space or
\* the emergency cut at 1999, the last space at position 0 included; the
\* loop of every content that is followed has ended.
C30_EveryIterationShortens ==
  brk.pc = "split" =>
    /\ brk.done
    /\ \A k \in 0..(MaxSplitIterations - 1) :
         LET progress(st, next) ==
               ~st.done => next.done \/ Len(next.remaining) < Len(st.remaining)
             iteration(st) == progress(st, SmartSplitStep(st))
         IN Len(brk.content) > 2000 => iteration(SplitStateAfter(brk.content, k))

\* a content whose first cut is the last space at position 0 and whose
\* second cut is the emergency cut has been split into two blocks
C30_Witness ==
  /\ brk.pc = "split"
  /\ Len(brk.content) > 2000
  /\ _find_best_break_point(Slice(brk.content, 0, 2000)) = -1
  /\ BreakPointOf(brk.content) = 0
  /\ BreakPointOf(NextRemaining(brk.content, 0)) = 1999
  /\ brk.done
  /\ Len(brk.chunks) = 2

====
